---- MODULE Spec2Model ----
(***************************************************************************)
(* The guided activity dialogue of the Telegram bot (telegram-bot/bot.js): *)
(* the session store, the step machine of the 'message' handler, the       *)
(* command handlers, the button callbacks and the commit on Confirm.       *)
(*                                                                         *)
(* JavaScript values are written as tuples.  A text is the tuple of its    *)
(* characters, "" is << >>, and every other value is a tuple whose first   *)
(* element is a tag beginning with '#', so that two values of different    *)
(* kinds are always unequal and never confused.                            *)
(***************************************************************************)
EXTENDS Integers, Sequences, FiniteSets, TLC

\* ------------------------------------------------------------------ values
Undef == <<"#undefined">>
Null == <<"#null">>
Invalid == <<"#invalid">>

Falsy(v) == v \in {Undef, Null, << >>}
Or(a, b) == IF Falsy(a) THEN b ELSE a

Num(n) == <<"#num", n, << >>>>
Now(t) == <<"#now", t>>
Iso(y, mo, d, h, mi) == <<"#iso", y, mo, d, h, mi>>
IsInstant(v) == v # << >> /\ v[1] \in {"#now", "#iso"}
IsText(v) == IF v = << >> THEN TRUE ELSE v[1] \notin {"#undefined", "#null", "#invalid", "#num", "#now", "#iso", "#att", "#geo", "#gps", "#url"}

\* ------------------------------------------------------------------- texts
Digits == {"0", "1", "2", "3", "4", "5", "6", "7", "8", "9"}
DigitVal == [c \in Digits |->
    CASE c = "0" -> 0 [] c = "1" -> 1 [] c = "2" -> 2 [] c = "3" -> 3 [] c = "4" -> 4
      [] c = "5" -> 5 [] c = "6" -> 6 [] c = "7" -> 7 [] c = "8" -> 8 [] c = "9" -> 9]
Letters == {"a", "b", "c", "d", "e", "f", "g", "h", "i", "j", "k", "l", "m",
            "n", "o", "p", "q", "r", "s", "t", "u", "v", "w", "x", "y", "z"}
UpperMap == ("A" :> "a") @@ ("B" :> "b") @@ ("D" :> "d") @@ ("M" :> "m") @@
            ("N" :> "n") @@ ("S" :> "s") @@ ("T" :> "t")
WordChars == Letters \cup DOMAIN UpperMap \cup Digits \cup {"_"}

LowerCh(c) == IF c \in DOMAIN UpperMap THEN UpperMap[c] ELSE c
toLowerCase(t) == [i \in 1..Len(t) |-> LowerCh(t[i])]

RECURSIVE TrimLeft(_)
TrimLeft(t) == IF t # << >> /\ Head(t) = " " THEN TrimLeft(Tail(t)) ELSE t
RECURSIVE TrimRight(_)
TrimRight(t) == IF t # << >> /\ t[Len(t)] = " " THEN TrimRight(SubSeq(t, 1, Len(t) - 1)) ELSE t
trim(t) == TrimRight(TrimLeft(t))

startsWith(t, p) == Len(t) >= Len(p) /\ SubSeq(t, 1, Len(p)) = p
\* position of the first occurrence of p in t, 0 when there is none
IndexOf(t, p) ==
    LET hits == {i \in 1..(Len(t) - Len(p) + 1) : SubSeq(t, i, i + Len(p) - 1) = p}
    IN IF hits = {} THEN 0 ELSE CHOOSE i \in hits : \A j \in hits : i <= j
RECURSIVE Remove(_, _)
Remove(t, cs) == IF t = << >> THEN << >>
                 ELSE IF Head(t) \in cs THEN Remove(Tail(t), cs)
                 ELSE <<Head(t)>> \o Remove(Tail(t), cs)

\* String(s || '').trim()
normalizeText(s) == IF IsText(s) THEN trim(s) ELSE << >>

T_skip == <<"s", "k", "i", "p">>
T_slashskip == <<"/", "s", "k", "i", "p">>
T_slashskipAt == <<"/", "s", "k", "i", "p", "@">>

isSkipText(text) ==
    LET t == toLowerCase(normalizeText(text))
    IN t # << >> /\ (t = T_skip \/ t = T_slashskip \/ startsWith(t, T_slashskipAt))

\* ------------------------------------------------------- activity type
T_transit == <<"t", "r", "a", "n", "s", "i", "t">>
T_arrival == <<"a", "r", "r", "i", "v", "a", "l">>
T_distribution == <<"d", "i", "s", "t", "r", "i", "b", "u", "t", "i", "o", "n">>
T_class == <<"c", "l", "a", "s", "s">>
T_completion == <<"c", "o", "m", "p", "l", "e", "t", "i", "o", "n">>
T_update == <<"u", "p", "d", "a", "t", "e">>
T_mushaf == <<"m", "u", "s", "h", "a", "f">>
T_mushafs == <<"m", "u", "s", "h", "a", "f", "s">>
T_other == <<"o", "t", "h", "e", "r">>

\* the vocabulary of normalizeActivityType: each known word with the type it stands for
TypeWords ==
    {<<T_transit, T_transit>>,
     <<<<"j", "o", "u", "r", "n", "e", "y">>, T_transit>>,
     <<<<"m", "o", "v", "e", "m", "e", "n", "t">>, T_transit>>,
     <<T_arrival, T_arrival>>,
     <<<<"a", "r", "r", "i", "v", "e">>, T_arrival>>,
     <<<<"t", "i", "b", "a">>, T_arrival>>,
     <<T_distribution, T_distribution>>,
     <<<<"a", "g", "i", "h", "a", "n">>, T_distribution>>,
     <<<<"d", "i", "s", "t", "r", "i", "b", "u", "t", "e">>, T_distribution>>,
     <<T_class, T_class>>,
     <<<<"l", "e", "s", "s", "o", "n">>, T_class>>,
     <<<<"h", "u", "f", "f", "a", "z">>, T_class>>,
     <<<<"d", "e", "l", "i", "v", "e", "r", "y">>, T_completion>>,
     <<T_completion, T_completion>>,
     <<<<"c", "o", "m", "p", "l", "e", "t", "e">>, T_completion>>,
     <<<<"s", "e", "l", "e", "s", "a", "i">>, T_completion>>,
     <<T_update, T_update>>,
     <<<<"s", "t", "a", "t", "u", "s">>, T_update>>}

RECURSIVE Slug(_)
\* t.replace(/\s+/g, '_')
Slug(t) == IF t = << >> THEN << >>
           ELSE IF Head(t) = " " THEN <<"_">> \o Slug(TrimLeft(t))
           ELSE <<Head(t)>> \o Slug(Tail(t))

normalizeActivityType(raw) ==
    LET t == toLowerCase(normalizeText(raw))
        known == {w \in TypeWords : w[1] = t}
    IN IF t = << >> THEN << >>
       ELSE IF known # {} THEN (CHOOSE w \in known : TRUE)[2]
       ELSE Slug(t)

\* --------------------------------------------------------------- count
CountSeparators == {" ", ",", ".", "_", "-"}
DigitRunChars == Digits \cup {",", ".", "_", " "}

AllDigits(t) == \A i \in 1..Len(t) : t[i] \in Digits
RECURSIVE ParseNat(_)
ParseNat(ds) == IF ds = << >> THEN 0
                ELSE 10 * ParseNat(SubSeq(ds, 1, Len(ds) - 1)) + DigitVal[ds[Len(ds)]]
RECURSIVE TrimZerosRight(_)
TrimZerosRight(ds) == IF ds # << >> /\ ds[Len(ds)] = "0" THEN TrimZerosRight(SubSeq(ds, 1, Len(ds) - 1)) ELSE ds

\* Number(numStr) for a string of digits and dots that begins with a digit:
\* <<"#num", integer part, fraction digits>>, or Invalid for NaN
JsNumber(numStr) ==
    LET dots == {i \in 1..Len(numStr) : numStr[i] = "."}
    IN IF dots = {} THEN <<"#num", ParseNat(numStr), << >>>>
       ELSE IF Cardinality(dots) > 1 THEN Invalid
       ELSE LET d == CHOOSE i \in dots : TRUE
            IN <<"#num", ParseNat(SubSeq(numStr, 1, d - 1)),
                 TrimZerosRight(SubSeq(numStr, d + 1, Len(numStr)))>>

FirstDigit(t) ==
    LET ds == {i \in 1..Len(t) : t[i] \in Digits}
    IN IF ds = {} THEN 0 ELSE CHOOSE i \in ds : \A j \in ds : i <= j
RECURSIVE RunEnd(_, _)
RunEnd(t, i) == IF i < Len(t) /\ t[i + 1] \in DigitRunChars THEN RunEnd(t, i + 1) ELSE i

parseCountInput(raw) ==
    LET t == normalizeText(raw)
        z == Remove(t, CountSeparators)
        i == FirstDigit(t)
        j == RunEnd(t, i)
        n == JsNumber(Remove(SubSeq(t, i, j), {",", "_", " "}))
        remainder == toLowerCase(trim(SubSeq(t, 1, i - 1) \o SubSeq(t, j + 1, Len(t))))
    IN IF t = << >> \/ isSkipText(t) THEN Null
       ELSE IF z # << >> /\ \A k \in 1..Len(z) : z[k] = "0" THEN Null
       ELSE IF i # 0 /\ n # Invalid
            THEN IF remainder \in {<< >>, T_mushaf, T_mushafs} THEN n ELSE t
       ELSE t

\* ---------------------------------------------------------------- date
DateKeywords == {<<"n", "o", "w">>, <<"c", "u", "r", "r", "e", "n", "t">>, <<"c", "u", "r", "r", "e", "n", "t", " ", "t", "i", "m", "e">>, <<"t", "o", "d", "a", "y">>, <<"t", "o", "d", "a", "y", " ", "n", "o", "w">>}

\* new Date(s) of the runtime, for the inputs of this model: an instant is
\* read back as itself, null is the epoch, and of the texts the ISO forms
\* YYYY, YYYY-MM-DD and YYYY-MM-DDTHH:MM are accepted
IsoDateText(s) ==
    /\ Len(s) \in {10, 16}
    /\ AllDigits(SubSeq(s, 1, 4)) /\ s[5] = "-" /\ AllDigits(SubSeq(s, 6, 7))
    /\ s[8] = "-" /\ AllDigits(SubSeq(s, 9, 10))
    /\ ParseNat(SubSeq(s, 6, 7)) \in 1..12 /\ ParseNat(SubSeq(s, 9, 10)) \in 1..31
    /\ Len(s) = 16 => /\ s[11] = "T" /\ AllDigits(SubSeq(s, 12, 13)) /\ s[14] = ":"
                      /\ AllDigits(SubSeq(s, 15, 16))
                      /\ ParseNat(SubSeq(s, 12, 13)) \in 0..23 /\ ParseNat(SubSeq(s, 15, 16)) \in 0..59
JsDate(s) ==
    IF IsInstant(s) THEN s
    ELSE IF s = Null THEN Iso(1970, 1, 1, 0, 0)
    ELSE IF ~IsText(s) THEN Invalid
    ELSE IF Len(s) = 4 /\ AllDigits(s) THEN Iso(ParseNat(s), 1, 1, 0, 0)
    ELSE IF IsoDateText(s)
         THEN Iso(ParseNat(SubSeq(s, 1, 4)), ParseNat(SubSeq(s, 6, 7)), ParseNat(SubSeq(s, 9, 10)),
                  IF Len(s) = 16 THEN ParseNat(SubSeq(s, 12, 13)) ELSE 0,
                  IF Len(s) = 16 THEN ParseNat(SubSeq(s, 15, 16)) ELSE 0)
    ELSE Invalid

safeDateISO(s, now) == IF JsDate(s) = Invalid THEN Now(now) ELSE JsDate(s)

\* s.replace(' ', 'T'): the first blank only
ReplaceFirstBlank(s) ==
    LET i == IndexOf(s, <<" ">>)
    IN IF i = 0 THEN s ELSE SubSeq(s, 1, i - 1) \o <<"T">> \o SubSeq(s, i + 1, Len(s))

\* number of digits of t at position i, at most max
DigitsAt(t, i, max) ==
    LET ns == {n \in 0..max : i + n - 1 <= Len(t) /\ AllDigits(SubSeq(t, i, i + n - 1))}
    IN CHOOSE n \in ns : \A m \in ns : m <= n

\* /^(\d{4})[-\/](\d{1,2})[-\/](\d{1,2})(?:[ T](\d{1,2}):(\d{2}))?/ and Date.UTC
StructuredDate(s) ==
    LET a == 6
        na == DigitsAt(s, a, 2)
        b == a + na + 1
        nb == DigitsAt(s, b, 2)
        c == b + nb + 1
        nc == DigitsAt(s, c, 2)
        hasTime == /\ nb > 0 /\ Len(s) >= c + nc + 2 /\ s[b + nb] \in {" ", "T"} /\ nc > 0
                   /\ s[c + nc] = ":" /\ DigitsAt(s, c + nc + 1, 2) = 2
    IN IF /\ DigitsAt(s, 1, 4) = 4 /\ Len(s) >= 5 /\ s[5] \in {"-", "/"} /\ na > 0
          /\ Len(s) >= a + na /\ s[a + na] \in {"-", "/"} /\ nb > 0
       THEN Iso(ParseNat(SubSeq(s, 1, 4)), ParseNat(SubSeq(s, a, a + na - 1)),
                ParseNat(SubSeq(s, b, b + nb - 1)),
                IF hasTime THEN ParseNat(SubSeq(s, c, c + nc - 1)) ELSE 0,
                IF hasTime THEN ParseNat(SubSeq(s, c + nc + 1, c + nc + 2)) ELSE 0)
       ELSE Invalid

\* '' (unknown) is << >>
parseFlexibleDate(s, now) ==
    IF Falsy(s) THEN << >>
    ELSE IF toLowerCase(trim(s)) \in DateKeywords THEN Now(now)
    ELSE IF JsDate(s) # Invalid THEN JsDate(s)
    ELSE IF JsDate(ReplaceFirstBlank(s)) # Invalid THEN JsDate(ReplaceFirstBlank(s))
    ELSE IF StructuredDate(s) # Invalid THEN StructuredDate(s)
    ELSE << >>

\* ------------------------------------------------------------ bounds
MaxClock == 1       \* instants 0..MaxClock at which events are handled
MaxSuspended == 1   \* handlers that wait for a collaborator at the same time
MaxDetours == 1     \* events off the plain path (other answers, skips, steps back,
                    \* jumps to a field, buttons of another step, deletions, edit
                    \* and delete requests during a session, a collaborator that
                    \* fails, a handler that fails or is kept waiting, a pause in
                    \* which time passes) in a run

\* --------------------------------------------------------- configuration
Chats == {"c1", "c2"}
Users == {"u1"}

\* ------------------------------------------------------------- records
T_A == <<"A">>
T_N == <<"N">>
T_1200 == <<"1", "2", "0", "0">>
T_tiba == <<"t", "i", "b", "a">>
T_Untitled == <<"U", "n", "t", "i", "t", "l", "e", "d">>
T_Activity == <<"A", "c", "t", "i", "v", "i", "t", "y">>
T_SharedLocation == <<"S", "h", "a", "r", "e", "d", " ", "l", "o", "c", "a", "t", "i", "o", "n">>
T_SendMyLocation == <<"S", "e", "n", "d", " ", "m", "y", " ", "l", "o", "c", "a", "t", "i", "o", "n">>
T_TypeLocation == <<"T", "y", "p", "e", " ", "l", "o", "c", "a", "t", "i", "o", "n">>

\* an attachment object {type, path, fileId, webPath}: path is "path" when the
\* object names a downloaded file, webPath is "none", "empty", "local" or "public"
Att(type, path, fileId, webPath) == <<"#att", type, path, fileId, webPath>>
IsAtt(v) == v # << >> /\ v[1] = "#att"

\* what the geocoder answers for a text, and what a shared location carries
GeoName(t) == <<"#name">> \o t
GeoLat == <<"#geo", "lat">>
GeoLng == <<"#geo", "lng">>
GpsLat == <<"#gps", "lat">>
GpsLng == <<"#gps", "lng">>
IsNumber(v) == v # << >> /\ v[1] \in {"#num", "#geo", "#gps"}

EmptyData == [id |-> Undef, title |-> Undef, activity_type |-> Undef, date |-> Undef,
              dateRaw |-> Undef, count |-> Undef, location |-> Undef, lat |-> Undef,
              lng |-> Undef, attachment |-> Undef, note |-> Undef]

\* ---------------------------------------------------------------- state
VARIABLES
    sessions,                   \* sessions: chat id -> session, for the chats that have one
    pendingMenuActionByChatId,  \* chat id -> "null", "edit" or "delete"
    storage,                    \* the activities table or activities.json: a set of rows
    dbEnabled,                  \* DATABASE_URL is set and pg is installed
    idSeq,                      \* ids handed out so far by makeId and by the table
    clock,                      \* the current instant
    ev,                         \* the event handled last
    out,                        \* what handling it sent, wrote and announced
    detours,                    \* how much of MaxDetours is used
    suspended,                  \* the handlers that wait for a collaborator to answer
    ALLOWED,                    \* ALLOWED_TELEGRAM_IDS as read at start: the allow-list
    recap,                      \* recap-scheduler.js: its clock, its place in main() and its target
    cron,                       \* telegram-cron.php: the update offset, the file and the run
    polling                     \* _pollingStarting, the poller and the retry timers

vars == <<sessions, pendingMenuActionByChatId, storage, dbEnabled, idSeq, clock, ev, out,
          detours, suspended, ALLOWED, recap, cron, polling>>
\* the bot's dialogue state, which the other processes leave alone
botVars == <<sessions, pendingMenuActionByChatId, storage, dbEnabled, idSeq, clock, ev, out,
             detours, suspended, ALLOWED>>

\* a process that a specification does not run
Off == [pc |-> "off"]
Aside == recap = Off /\ cron = Off /\ polling = Off

startSession(ss, chatId, userId, mode) ==
    [c \in DOMAIN ss \cup {chatId} |->
        IF c = chatId
        THEN [userId |-> userId, mode |-> mode, editMode |-> "none", step |-> "title",
              data |-> EmptyData, pending |-> << >>, shared |-> FALSE]
        ELSE ss[c]]
endSession(ss, chatId) == [c \in DOMAIN ss \ {chatId} |-> ss[c]]
\* a putSession whose object every conversation id of the table reaches
putSession_Aliased(ss, chatId, s) == [c \in DOMAIN ss |-> s]
\* the store after a handler that holds session s of chatId has changed it
putSession(ss, chatId, s) == [ss EXCEPT ![chatId] = s]

isEditMenuMode(s) == s.mode = "edit" /\ s.editMode = "menu"
\* an isAllowed that lets every sender in
isAllowed_Open(userId) == TRUE
isAllowed(userId) == ALLOWED = {} \/ userId \in ALLOWED

\* a stepPrev that steps from count back over date
stepPrev_Skipping(step) ==
    CASE step = "confirming" -> "note"
      [] step = "note" -> "attachment"
      [] step = "attachment" -> "location"
      [] step = "location" -> "count"
      [] step = "count" -> "type"
      [] step = "date" -> "type"
      [] step = "type" -> "title"
      [] OTHER -> ""

stepPrev(step) ==
    CASE step = "confirming" -> "note"
      [] step = "note" -> "attachment"
      [] step = "attachment" -> "location"
      [] step = "location" -> "count"
      [] step = "count" -> "date"
      [] step = "date" -> "type"
      [] step = "type" -> "title"
      [] OTHER -> ""

\* path.join('telegram-bot','uploads', basename) is set on the attachment object
WithLocalWebPath(att) == Att(att[2], att[3], att[4], "local")

\* the result of a handler on a session: the session and the messages sent
Res(s, replies) == [s |-> s, replies |-> replies]
promptForStep(s) == Res(s, <<<<"prompt", s.step>>>>)

sendPreview(s, now, newId) ==
    LET a == Or(s.data.attachment, Null)
        att == IF IsAtt(a) /\ a[3] = "path" THEN WithLocalWebPath(a) ELSE a
        item == [id |-> Or(s.data.id, newId),
                 title |-> s.data.title,
                 activity_type |-> s.data.activity_type,
                 date |-> safeDateISO(s.data.date, now),
                 count |-> s.data.count,
                 location |-> s.data.location,
                 lat |-> s.data.lat,
                 lng |-> s.data.lng,
                 note |-> s.data.note,
                 attachment |-> att,
                 attachment_url |-> Undef,
                 attachment_type |-> Undef]
    IN Res([s EXCEPT !.pending = <<item>>, !.step = "confirming",
                     !.data.attachment = IF IsAtt(a) THEN att ELSE @,
                     !.shared = IsAtt(a)],
           <<<<"preview", "confirm_cancel">>>>)

handleSkip(s, now, newId) ==
    IF isEditMenuMode(s) THEN promptForStep([s EXCEPT !.step = "edit_menu"])
    ELSE CASE s.step = "type" ->
                Res([s EXCEPT !.data.activity_type = Or(@, << >>), !.step = "date"], <<<<"ask", "date">>>>)
           [] s.step = "date" ->
                Res([s EXCEPT !.data.date = safeDateISO(<< >>, now), !.step = "count"], <<<<"ask", "count">>>>)
           [] s.step = "count" ->
                Res([s EXCEPT !.data.count = Null, !.step = "location"], <<<<"ask", "location">>>>)
           [] s.step = "location" ->
                Res([s EXCEPT !.data.location = Or(@, << >>), !.step = "attachment"], <<<<"skipping", "location">>>>)
           [] s.step = "attachment" ->
                Res([s EXCEPT !.data.attachment = Null, !.step = "note", !.shared = FALSE],
                    <<<<"skipping", "attachment">>>>)
           [] s.step = "note" -> sendPreview([s EXCEPT !.data.note = << >>], now, newId)
           [] OTHER -> Res(s, << >>)

\* an Advance that passes over the location step
Advance_OverLocation(s, next, reply) ==
    IF isEditMenuMode(s) THEN promptForStep([s EXCEPT !.step = "edit_menu"])
    ELSE Res([s EXCEPT !.step = IF next = "location" THEN "attachment" ELSE next], <<reply>>)

\* a step is done: back to the edit menu in field-menu submode, else on to next
Advance(s, next, reply) ==
    IF isEditMenuMode(s) THEN promptForStep([s EXCEPT !.step = "edit_menu"])
    ELSE Res([s EXCEPT !.step = next], <<reply>>)

\* the location step once geocodeLocation(typed) has answered: geo is whether
\* it found a place
afterGeocode(s, typed, geo) ==
    IF geo
    THEN Advance([s EXCEPT !.data.lat = GeoLat, !.data.lng = GeoLng,
                           !.data.location = GeoName(typed)],
                 "attachment", <<"location", "resolved">>)
    ELSE Advance([s EXCEPT !.data.location = typed, !.data.lat = Null, !.data.lng = Null],
                 "attachment", <<"location", "text_only">>)

\* the attachment step once downloadFile has ended: dl is whether it succeeded
afterDownload(s, type, dl) ==
    Advance([s EXCEPT !.data.attachment = Att(type, IF dl THEN "path" ELSE "nopath", "file", "none"),
                      !.shared = FALSE],
            "note", <<"saved", IF type = "photo" THEN "photo" ELSE "document">>)

\* an asking again that takes the message for a skip
askAgain_Skipping(s) ==
    Res([s EXCEPT !.step = IF s.step = "location" THEN "attachment" ELSE "note"],
        <<<<"reprompt", s.step>>>>)

\* a message that is no answer to the location or the attachment step: the
\* step says what it takes and the session stays as it is
askAgain(s) == Res(s, <<<<"reprompt", s.step>>>>)

\* the step machine of the 'message' handler for a session s and a message that
\* is not a command; geo and dl are the outcomes of the geocoder and of the
\* file download when the step consults them
StepMachine(s, msg, geo, dl, now, newId) ==
    CASE s.step = "title" ->
            Advance(IF isSkipText(msg.text) /\ s.mode = "edit" THEN s
                    ELSE [s EXCEPT !.data.title = Or(msg.text, Or(msg.caption, Or(@, T_Untitled)))],
                    "type", <<"prompt", "type">>)
      [] s.step = "type" ->
            LET raw == trim(Or(msg.text, << >>))
            IN Advance(IF isSkipText(raw)
                       THEN (IF s.mode # "edit" THEN [s EXCEPT !.data.activity_type = << >>] ELSE s)
                       ELSE [s EXCEPT !.data.activity_type = normalizeActivityType(raw)],
                       "date", <<"prompt", "date">>)
      [] s.step = "date" ->
            LET raw == trim(Or(msg.text, << >>))
                parsed == parseFlexibleDate(raw, now)
            IN Advance(IF isSkipText(raw)
                       THEN (IF s.mode # "edit" THEN [s EXCEPT !.data.date = safeDateISO(<< >>, now)] ELSE s)
                       ELSE IF raw = << >> THEN [s EXCEPT !.data.date = safeDateISO(<< >>, now)]
                       ELSE IF ~Falsy(parsed) THEN [s EXCEPT !.data.date = parsed]
                       ELSE [s EXCEPT !.data.date = safeDateISO(raw, now), !.data.dateRaw = raw],
                       "count", <<"prompt", "count">>)
      [] s.step = "count" ->
            Advance(IF isSkipText(msg.text)
                    THEN (IF s.mode # "edit" THEN [s EXCEPT !.data.count = Null] ELSE s)
                    ELSE [s EXCEPT !.data.count = parseCountInput(msg.text)],
                    "location", <<"prompt", "location">>)
      [] s.step = "location" ->
            IF isSkipText(msg.text)
            THEN Advance(IF s.mode # "edit" THEN [s EXCEPT !.data.location = << >>] ELSE s,
                         "attachment", <<"prompt", "attachment">>)
            ELSE IF msg.location
            THEN Advance([s EXCEPT !.data.lat = GpsLat, !.data.lng = GpsLng,
                                   !.data.location = T_SharedLocation],
                         "attachment", <<"location", "shared">>)
            ELSE IF ~Falsy(msg.text) /\ msg.text # T_SendMyLocation /\ msg.text # T_TypeLocation
            THEN afterGeocode(s, trim(msg.text), geo)
            ELSE askAgain(s)
      [] s.step = "attachment" ->
            IF msg.photo THEN afterDownload(s, "photo", dl)
            ELSE IF msg.document THEN afterDownload(s, "doc", dl)
            ELSE IF ~Falsy(msg.text) /\ isSkipText(msg.text)
            THEN Advance(IF s.mode # "edit"
                         THEN [s EXCEPT !.data.attachment = Null, !.shared = FALSE] ELSE s,
                         "note", <<"skipping", "attachment">>)
            ELSE askAgain(s)
      [] s.step = "note" ->
            LET s1 == IF ~Falsy(msg.text) /\ isSkipText(msg.text)
                      THEN (IF s.mode # "edit" THEN [s EXCEPT !.data.note = << >>] ELSE s)
                      ELSE IF IsText(msg.text) THEN [s EXCEPT !.data.note = msg.text]
                      ELSE IF IsText(msg.caption) THEN [s EXCEPT !.data.note = msg.caption]
                      ELSE [s EXCEPT !.data.note = Or(@, << >>)]
            IN IF isEditMenuMode(s1) THEN promptForStep([s1 EXCEPT !.step = "edit_menu"])
               ELSE sendPreview(s1, now, newId)
      [] OTHER -> Res(s, << >>)

\* ------------------------------------------------------------- storage
RECURSIVE NatToText(_)
NatToText(n) ==
    LET c == CHOOSE ch \in Digits : DigitVal[ch] = n % 10
    IN IF n < 10 THEN <<c>> ELSE NatToText(n \div 10) \o <<c>>
\* String(count)
CountToString(v) ==
    IF v # << >> /\ v[1] = "#num"
    THEN NatToText(v[2]) \o (IF v[3] = << >> THEN << >> ELSE <<".">> \o v[3])
    ELSE v

LocalId(n) == <<"#id", ToString(n)>>
\* the ids of the table are uuids: 8-4-4-4-12 hex digits; the n-th one of a run
Zeros(k) == [i \in 1..k |-> "0"]
DbId(n) ==
    Zeros(8) \o <<"-">> \o Zeros(4) \o <<"-">> \o Zeros(4) \o <<"-">> \o Zeros(4) \o <<"-">>
    \o Zeros(12 - Len(NatToText(n))) \o NatToText(n)
UnknownId == DbId(0)
PublicUrl == <<"#url">>
AttType(a) == <<a[2]>>
HexDigits == Digits \cup {"a", "b", "c", "d", "e", "f", "A", "B", "C", "D", "E", "F"}
\* /^[0-9a-f]{8}-[0-9a-f]{4}-[0-9a-f]{4}-[0-9a-f]{4}-[0-9a-f]{12}$/i
isUuidLike(s) ==
    LET t == normalizeText(s)
    IN /\ Len(t) = 36
       /\ \A i \in 1..Len(t) : IF i \in {9, 14, 19, 24} THEN t[i] = "-" ELSE t[i] \in HexDigits

HasPublicWebPath(item) == IsAtt(item.attachment) /\ item.attachment[5] = "public"

\* the row INSERT writes for an item, as getActivityFromDbById reads it back
InsertedRow(id, item) ==
    [id |-> id,
     title |-> Or(item.title, T_Activity),
     note |-> Or(item.note, Null),
     date |-> IF Falsy(item.date) THEN Null ELSE JsDate(item.date),
     count |-> IF item.count \in {Null, Undef} THEN Null ELSE CountToString(item.count),
     location |-> Or(item.location, Null),
     lat |-> IF IsNumber(item.lat) THEN item.lat ELSE Null,
     lng |-> IF IsNumber(item.lng) THEN item.lng ELSE Null,
     attachment_url |-> IF HasPublicWebPath(item) THEN PublicUrl ELSE Null,
     attachment_type |-> IF IsAtt(item.attachment) THEN AttType(item.attachment) ELSE Null,
     attachment |-> Undef,
     activity_type |-> item.activity_type,
     raw |-> TRUE]
\* the row UPDATE leaves for an item
UpdatedRow(id, item) ==
    [InsertedRow(id, item) EXCEPT
        !.attachment_url = IF HasPublicWebPath(item) THEN PublicUrl ELSE Or(item.attachment_url, Null),
        !.attachment_type = IF IsAtt(item.attachment) THEN AttType(item.attachment)
                            ELSE Or(item.attachment_type, Null)]
\* the element of activities.json for an item
FileRow(item) ==
    [id |-> item.id, title |-> item.title, note |-> item.note, date |-> item.date,
     count |-> item.count, location |-> item.location, lat |-> item.lat, lng |-> item.lng,
     attachment_url |-> item.attachment_url, attachment_type |-> item.attachment_type,
     attachment |-> item.attachment, activity_type |-> item.activity_type, raw |-> FALSE]

RowsWithId(st, id) == {r \in st : r.id = id}

\* the draft beginEditFlow seeds from an existing row
SeedData(existing, now) ==
    [id |-> existing.id,
     title |-> Or(existing.title, << >>),
     note |-> Or(existing.note, << >>),
     activity_type |-> IF existing.raw /\ ~Falsy(existing.activity_type)
                       THEN existing.activity_type ELSE Undef,
     date |-> IF ~Falsy(existing.date) THEN safeDateISO(existing.date, now)
              ELSE safeDateISO(<< >>, now),
     dateRaw |-> Undef,
     count |-> IF existing.count \in {Null, Undef} THEN Null ELSE existing.count,
     location |-> Or(existing.location, << >>),
     lat |-> IF IsNumber(existing.lat) THEN existing.lat ELSE Null,
     lng |-> IF IsNumber(existing.lng) THEN existing.lng ELSE Null,
     attachment |-> IF ~Falsy(existing.attachment_url) \/ ~Falsy(existing.attachment_type)
                    THEN Att(IF Falsy(existing.attachment_type) THEN "photo"
                             ELSE existing.attachment_type[1],
                             "nopath", "nofile",
                             IF Falsy(existing.attachment_url) THEN "empty" ELSE "public")
                    ELSE IF ~Falsy(existing.attachment) THEN existing.attachment
                    ELSE Undef]

\* ------------------------------------------------------------- inbound
\* a chat message: text and caption are a text or Undef, the rest are flags
Msg(text, caption, location, photo, document) ==
    [text |-> text, caption |-> caption, location |-> location, photo |-> photo,
     document |-> document]
TextMsg(t) == Msg(t, Undef, FALSE, FALSE, FALSE)
NoMsg == TextMsg(Undef)
\* a button press: the callback data, split at the colon
Data(name, arg) == [name |-> name, arg |-> arg]
NoData == Data("", Undef)
\* the outcomes of the collaborators a handler consults; tx is how the handler
\* itself fares: "ok", "fail" when the first call to the chat's transport that
\* it waits for or returns is rejected, "throw" when its own code throws
\* before it has changed anything
Env(geo, dl, r2, st, ann) ==
    [geo |-> geo, dl |-> dl, r2 |-> r2, st |-> st, ann |-> ann, tx |-> "ok"]
WithTx(env, tx) == [env EXCEPT !.tx = tx]
NoEnv == Env(TRUE, TRUE, "off", "ok", "off")

C_new == <<"/", "n", "e", "w">>
C_cancel == <<"/", "c", "a", "n", "c", "e", "l">>
C_skip == T_slashskip
C_skipAt == <<"/", "s", "k", "i", "p", "@", "b", "o", "t">>
C_back == <<"/", "b", "a", "c", "k">>
C_edit == <<"/", "e", "d", "i", "t", " ">>
C_delete == <<"/", "d", "e", "l", "e", "t", "e", " ">>
C_add == <<"/", "a", "d", "d", " ", "A">>
B_new == <<"\\", "n", "e", "w">>
B_cancel == <<"\\", "c", "a", "n", "c", "e", "l">>
B_skip == <<"\\", "s", "k", "i", "p">>
B_back == <<"\\", "b", "a", "c", "k">>

CommandWords == {<<"s", "t", "a", "r", "t">>, <<"h", "e", "l", "p">>, <<"m", "e", "n", "u">>, <<"n", "e", "w">>, <<"c", "a", "n", "c", "e", "l">>, <<"s", "k", "i", "p">>, <<"b", "a", "c", "k">>, <<"e", "d", "i", "t">>, <<"d", "e", "l", "e", "t", "e">>, <<"a", "d", "d">>, <<"l", "i", "s", "t">>}
\* /^\/(start|help|menu|new|cancel|skip|back|edit|delete|add|list)\b/i
IsCommandText(text) ==
    /\ ~Falsy(text)
    /\ \E w \in CommandWords :
          /\ startsWith(toLowerCase(text), <<"/">> \o w)
          /\ IF Len(text) = Len(w) + 1 THEN TRUE ELSE text[Len(w) + 2] \notin WordChars
\* an onText pattern /\/word/ is found in the text
OnText(text, word, ignoreCase) ==
    /\ ~Falsy(text)
    /\ IndexOf(IF ignoreCase THEN toLowerCase(text) ELSE text, <<"/">> \o word) # 0
\* the 'message' handler reads a text that begins with a backslash as the
\* command /^\/([a-zA-Z0-9_]+)(?:\s+([\s\S]+))?$/ and lower-cases its name
BackslashCmd(text) ==
    LET rest == Tail(text)
        ws == {n \in 1..Len(rest) : \A i \in 1..n : rest[i] \in WordChars}
        n == IF ws = {} THEN 0 ELSE CHOOSE k \in ws : \A m \in ws : m <= k
    IN IF n > 0 /\ (IF n = Len(rest) THEN TRUE ELSE rest[n + 1] = " ")
       THEN toLowerCase(SubSeq(rest, 1, n)) ELSE << >>
IsBackslashText(text) == ~Falsy(text) /\ text[1] = "\\"
\* the argument of a command text: what follows the first blank
CmdArg(text) ==
    LET i == IndexOf(text, <<" ">>)
    IN IF i = 0 THEN << >> ELSE trim(SubSeq(text, i + 1, Len(text)))

NoOut == [replies |-> << >>, answers |-> << >>, ops |-> << >>, announced |-> << >>]
Replies(rs) == [NoOut EXCEPT !.replies = rs]
\* an event as handled: pre is the step the chat's session was at, "" for none
Event(chat, user, kind, msg, data, env) ==
    [chat |-> chat, user |-> user, kind |-> kind, msg |-> msg, data |-> data, env |-> env,
     pre |-> IF chat \in DOMAIN sessions THEN sessions[chat].step ELSE ""]
Sess(c) == sessions[c]
Has(c) == c \in DOMAIN sessions

\* ------------------------------------------------------------ effects
\* what a handler leaves behind: the session store, the pending menu
\* actions, the storage, the id counter and the output
Eff(ss, pm, st, ids, o) == [sessions |-> ss, pending |-> pm, storage |-> st, idSeq |-> ids, out |-> o]
Say(rs) == Eff(sessions, pendingMenuActionByChatId, storage, idSeq, Replies(rs))
Answer(a) == Eff(sessions, pendingMenuActionByChatId, storage, idSeq, [NoOut EXCEPT !.answers = <<a>>])
\* an InSession that also saves the draft as it stands
InSession_Autosave(c, r) ==
    Eff(putSession(sessions, c, r.s), pendingMenuActionByChatId,
        storage \cup {FileRow(sendPreview(r.s, clock, LocalId(idSeq + 1)).s.pending[1])},
        idSeq, Replies(r.replies))

\* a handler changed the session of chat c as r says
InSession(c, r) == Eff(putSession(sessions, c, r.s), pendingMenuActionByChatId, storage,
                       idSeq, Replies(r.replies))
\* the same, with the messages of the handler lost to a transport that fails
Unsent(e) == [e EXCEPT !.out.replies = << >>, !.out.answers = << >>]
\* the catch of the 'message' handler: a notice, and the chat's session ended
sessionError(c) ==
    Eff(endSession(sessions, c), pendingMenuActionByChatId, storage, idSeq,
        Replies(<<<<"error_session_canceled">>>>))

\* a handler that changes the session and then sends, as it fares
Faring(tx, e) == IF tx = "throw" THEN Say(<< >>) ELSE IF tx = "fail" THEN Unsent(e) ELSE e

\* makeId(): an id no record has; idSeq counts the ids that records have used
makeId == LocalId(idSeq + 1)

beginGuidedFlow(c, u) ==
    IF ~isAllowed(u) THEN Say(<<<<"not_authorized">>>>)
    ELSE Eff(startSession(sessions, c, u, "create"), pendingMenuActionByChatId, storage, idSeq,
             Replies(<<<<"prompt", "title">>>>))

\* raw.replace(/[^0-9a-f]/gi, '').slice(0, 32)
HexPrefix(raw) ==
    LET hex == Remove(raw, {raw[i] : i \in DOMAIN raw} \ HexDigits)
    IN SubSeq(hex, 1, IF Len(hex) < 32 THEN Len(hex) ELSE 32)
\* what resolveDbIdFromPrefix throws when the prefix matches several rows
Ambiguous == <<"#ambiguous">>
\* SELECT id ... WHERE id::text ILIKE prefix%
RowsLike(st, prefix) == {r \in st : startsWith(toLowerCase(r.id), toLowerCase(prefix))}
\* resolveDbIdFromPrefix with the table st: a full id is itself, a text with
\* fewer than six hex digits is handed on as it is, and a longer one is looked
\* up by its hex digits
resolveDbIdFromPrefix(raw, st) ==
    LET prefix == HexPrefix(raw)
        rows == RowsLike(st, prefix)
    IN IF raw = << >> THEN << >>
       ELSE IF isUuidLike(raw) THEN raw
       ELSE IF Len(prefix) < 6 THEN raw
       ELSE IF Cardinality(rows) = 1 THEN (CHOOSE r \in rows : TRUE).id
       ELSE IF Cardinality(rows) > 1 THEN Ambiguous
       ELSE << >>

\* a beginEditFlow that does not look for a session of the chat
beginEditFlow_OverSession(c, u, id, now) ==
    LET typed == normalizeText(id)
        resolved == IF dbEnabled THEN resolveDbIdFromPrefix(typed, storage) ELSE typed
        activityId == resolved
        found == RowsWithId(storage, activityId)
        s0 == startSession(sessions, c, u, "edit")[c]
        s1 == [s0 EXCEPT !.data = SeedData(CHOOSE r \in found : TRUE, now),
                         !.editMode = "menu", !.step = "edit_menu"]
    IN IF ~isAllowed(u) THEN Say(<<<<"not_authorized">>>>)
       ELSE IF typed = << >> THEN Say(<<<<"usage", "edit">>>>)
       ELSE IF resolved = Ambiguous THEN Say(<<<<"ambiguous">>>>)
       ELSE IF resolved = << >> THEN Say(<<<<"not_found">>>>)
       \* the table rejects a text that is no uuid
       ELSE IF dbEnabled /\ ~isUuidLike(resolved) THEN Say(<<<<"edit_failed">>>>)
       ELSE IF found = {} THEN Say(<<<<"not_found">>>>)
       ELSE Eff([x \in DOMAIN sessions \cup {c} |-> IF x = c THEN s1 ELSE sessions[x]],
                pendingMenuActionByChatId, storage, idSeq, Replies(promptForStep(s1).replies))
beginEditFlow(c, u, id, now) ==
    LET typed == normalizeText(id)
        resolved == IF dbEnabled THEN resolveDbIdFromPrefix(typed, storage) ELSE typed
        activityId == resolved
        found == RowsWithId(storage, activityId)
        s0 == startSession(sessions, c, u, "edit")[c]
        s1 == [s0 EXCEPT !.data = SeedData(CHOOSE r \in found : TRUE, now),
                         !.editMode = "menu", !.step = "edit_menu"]
    IN IF ~isAllowed(u) THEN Say(<<<<"not_authorized">>>>)
       ELSE IF Has(c) THEN Say(<<<<"already_in_session">>>>)
       ELSE IF typed = << >> THEN Say(<<<<"usage", "edit">>>>)
       ELSE IF resolved = Ambiguous THEN Say(<<<<"ambiguous">>>>)
       ELSE IF resolved = << >> THEN Say(<<<<"not_found">>>>)
       \* the table rejects a text that is no uuid
       ELSE IF dbEnabled /\ ~isUuidLike(resolved) THEN Say(<<<<"edit_failed">>>>)
       ELSE IF found = {} THEN Say(<<<<"not_found">>>>)
       ELSE Eff([x \in DOMAIN sessions \cup {c} |-> IF x = c THEN s1 ELSE sessions[x]],
                pendingMenuActionByChatId, storage, idSeq, Replies(promptForStep(s1).replies))

handleDeleteById(c, u, id, st) ==
    LET typed == normalizeText(id)
        resolved == IF dbEnabled THEN resolveDbIdFromPrefix(typed, storage) ELSE typed
        normalizedId == resolved
        found == RowsWithId(storage, normalizedId)
    IN IF ~isAllowed(u) THEN Say(<<<<"not_authorized">>>>)
       ELSE IF Has(c) THEN Say(<<<<"in_session_cancel_first">>>>)
       ELSE IF typed = << >> THEN Say(<<<<"usage", "delete">>>>)
       ELSE IF resolved = Ambiguous THEN Say(<<<<"delete_failed", "ambiguous">>>>)
       ELSE IF resolved = << >> THEN Say(<<<<"not_found">>>>)
       \* the table rejects a text that is no uuid
       ELSE IF dbEnabled /\ ~isUuidLike(resolved) THEN Say(<<<<"delete_failed">>>>)
       ELSE IF found = {} THEN Say(<<<<"not_found">>>>)
       ELSE IF st = "fail"
            THEN Eff(sessions, pendingMenuActionByChatId, storage, idSeq,
                     [NoOut EXCEPT !.replies = <<<<"delete_failed">>>>,
                                   !.ops = <<<<"delete", normalizedId, "fail">>>>])
       ELSE Eff(sessions, pendingMenuActionByChatId, storage \ found, idSeq,
                [NoOut EXCEPT !.replies = <<<<"deleted">>>>,
                              !.ops = <<<<"delete", normalizedId, "ok">>>>])

\* the /add quick entry "title|date|count|location|latlng|note" with a title only
quickAdd(c, u, title, now, st) ==
    LET item == [id |-> makeId, title |-> Or(title, T_Activity), activity_type |-> Undef,
                 date |-> safeDateISO(<< >>, now), count |-> Null, location |-> << >>,
                 lat |-> Undef, lng |-> Undef, note |-> << >>, attachment |-> Undef,
                 attachment_url |-> Undef, attachment_type |-> Undef]
        row == IF dbEnabled THEN InsertedRow(DbId(idSeq + 1), item) ELSE FileRow(item)
    IN IF ~isAllowed(u) THEN Say(<<<<"not_authorized">>>>)
       ELSE IF st = "fail"
            THEN Eff(sessions, pendingMenuActionByChatId, storage, idSeq,
                     [NoOut EXCEPT !.replies = <<<<"add_failed">>>>,
                                   !.ops = <<<<"insert", row.id, "fail">>>>])
       ELSE Eff(sessions, pendingMenuActionByChatId, storage \cup {row},
                idSeq + 1,
                [NoOut EXCEPT !.replies = <<<<"added">>>>, !.ops = <<<<"insert", row.id, "ok">>>>])

\* a backStep that walks the sequence in field-menu submode too
backStep_Walking(s) ==
    IF stepPrev(s.step) = "" THEN Res(s, <<<<"already_at_first_step">>>>)
    ELSE promptForStep([s EXCEPT !.step = stepPrev(s.step)])

\* what the /back handler does to a session
backStep(s) ==
    IF isEditMenuMode(s) /\ s.step # "edit_menu" THEN promptForStep([s EXCEPT !.step = "edit_menu"])
    ELSE IF stepPrev(s.step) = "" THEN Res(s, <<<<"already_at_first_step">>>>)
    ELSE promptForStep([s EXCEPT !.step = stepPrev(s.step)])

\* /back and \back
back(c, noSessionReply, tx) ==
    Faring(tx, IF ~Has(c) THEN Say(noSessionReply) ELSE InSession(c, backStep(Sess(c))))

\* /skip and \skip
skip(c, noSessionReply, now, tx) ==
    Faring(tx, IF ~Has(c) THEN Say(noSessionReply)
               ELSE InSession(c, handleSkip(Sess(c), now, makeId)))

cancel(c, reply) ==
    Eff(endSession(sessions, c), [pendingMenuActionByChatId EXCEPT ![c] = "null"], storage, idSeq,
        Replies(<<reply>>))

\* ---------------------------------------------------------------- commit
\* ensurePublicAttachmentUrl: r2 is "ok" when object storage is configured
\* and the upload succeeds, "none" when it is not configured, "fail" when the
\* upload fails
ensurePublicAttachmentUrl(item, r2) ==
    IF IsAtt(item.attachment) /\ item.attachment[5] # "public" /\ item.attachment[3] = "path"
       /\ r2 = "ok"
    THEN [item EXCEPT !.attachment = Att(@[2], @[3], @[4], "public"),
                      !.attachment_url = PublicUrl,
                      !.attachment_type = AttType(item.attachment)]
    ELSE item

\* the staged record as the _confirm branch has finalized it before the write
Finalized(item, r2) ==
    ensurePublicAttachmentUrl(
        IF IsAtt(item.attachment) /\ item.attachment[3] = "path"
           /\ item.attachment[5] \in {"none", "empty"}
        THEN [item EXCEPT !.attachment = WithLocalWebPath(@)] ELSE item, r2)

\* the write of the _confirm branch: the storage and the record afterwards,
\* and the operation issued
Persist(mode, item) ==
    IF dbEnabled
    THEN IF mode = "edit"
         THEN [storage |-> (storage \ RowsWithId(storage, item.id)) \cup
                           {UpdatedRow(item.id, item) : r \in RowsWithId(storage, item.id)},
               item |-> item, op |-> <<"update", item.id>>, ids |-> idSeq]
         ELSE [storage |-> storage \cup {InsertedRow(DbId(idSeq + 1), item)},
               item |-> [item EXCEPT !.id = DbId(idSeq + 1)],
               op |-> <<"insert", DbId(idSeq + 1)>>, ids |-> idSeq + 1]
    ELSE IF mode = "edit" /\ RowsWithId(storage, item.id) # {}
         THEN [storage |-> (storage \ RowsWithId(storage, item.id)) \cup {FileRow(item)},
               item |-> item, op |-> <<"update", item.id>>, ids |-> idSeq]
         ELSE [storage |-> storage \cup {FileRow(item)},
               item |-> item, op |-> <<"insert", item.id>>,
               ids |-> IF mode = "edit" THEN idSeq ELSE idSeq + 1]

\* the session once the _confirm branch has finalized its staged record: the
\* record and, when it is the same object, the draft's attachment have been
\* changed in place
finalizedSession(s, r2) ==
    LET item == Finalized(s.pending[1], r2)
    IN [s EXCEPT !.pending = <<item>>,
                 !.data.attachment = IF s.shared THEN item.attachment ELSE @]

\* a tail of _confirm that gives up when the announcement fails
confirmTail_AnnounceOrNothing(c, s, p, env) ==
    IF env.tx = "fail" \/ env.ann = "fail"
    THEN Eff(putSession(sessions, c, [s EXCEPT !.pending = <<p.item>>]),
             pendingMenuActionByChatId, p.storage, p.ids,
             [NoOut EXCEPT !.ops = <<p.op \o <<"ok">>>>])
    ELSE Eff(endSession(sessions, c), pendingMenuActionByChatId, p.storage, p.ids,
             [replies |-> <<<<IF s.mode = "edit" THEN "updated" ELSE "saved">>>>,
              answers |-> <<"Saved">>,
              ops |-> <<p.op \o <<"ok">>>>,
              announced |-> IF env.ann = "ok" THEN <<p.item>> ELSE << >>])

\* the _confirm branch after the write p of session s: the buttons are
\* removed, the record is announced, the chat is told and the session is
\* ended; when the call that removes the buttons is rejected, the record, with
\* its new id, stays staged in the session
confirmTail(c, s, p, env) ==
    IF env.tx = "fail"
    THEN Eff(putSession(sessions, c, [s EXCEPT !.pending = <<p.item>>]),
             pendingMenuActionByChatId, p.storage, p.ids,
             [NoOut EXCEPT !.ops = <<p.op \o <<"ok">>>>])
    ELSE Eff(endSession(sessions, c), pendingMenuActionByChatId, p.storage, p.ids,
             [replies |-> <<<<IF s.mode = "edit" THEN "updated" ELSE "saved">>>>,
              answers |-> <<"Saved">>,
              ops |-> <<p.op \o <<"ok">>>>,
              announced |-> IF env.ann = "ok" THEN <<p.item>> ELSE << >>])

\* a confirm that drops the session when storage fails
confirm_DropsSession(c, env) ==
    LET s == Sess(c)
        item == Finalized(s.pending[1], env.r2)
        p == Persist(s.mode, item)
    IN IF s.pending = << >> THEN Faring(env.tx, Answer("Nothing to confirm."))
       ELSE IF env.st = "fail"
            THEN Eff(endSession(sessions, c), pendingMenuActionByChatId, storage, idSeq,
                     [NoOut EXCEPT !.ops = <<p.op \o <<"fail">>>>])
       ELSE confirmTail(c, s, p, env)

confirm(c, env) ==
    LET s == Sess(c)
        item == Finalized(s.pending[1], env.r2)
        s1 == finalizedSession(s, env.r2)
        p == Persist(s.mode, item)
    IN IF s.pending = << >> THEN Faring(env.tx, Answer("Nothing to confirm."))
       ELSE IF env.st = "fail"
            THEN Eff(putSession(sessions, c, s1), pendingMenuActionByChatId, storage, idSeq,
                     [NoOut EXCEPT !.ops = <<p.op \o <<"fail">>>>])
       ELSE confirmTail(c, s1, p, env)

\* the branches of the callback_query handler that need a session
sessionCallback(c, data, env, now) ==
    LET session == Sess(c)
        jump(editMode, step) == InSession(c, promptForStep([session EXCEPT !.editMode = editMode,
                                                                       !.step = step]))
        \* what a branch has changed when the first call it waits for is rejected
        unsent(s1) == InSession(c, Res(s1, << >>))
    IN IF env.tx = "throw" THEN Say(<< >>)
       ELSE IF env.tx = "fail" /\ data.name # "_confirm"
       THEN CASE data.name = "_set_type" ->
                   unsent([session EXCEPT
                              !.data.activity_type = normalizeActivityType(trim(data.arg))])
              [] data.name = "_edit_all" ->
                   unsent([session EXCEPT !.editMode = "guided", !.step = "title"])
              [] data.name = "_edit_field" ->
                   unsent([session EXCEPT !.editMode = "menu", !.step = data.arg])
              [] OTHER -> Say(<< >>)
       ELSE
       CASE data.name = "_set_type" ->
              InSession(c, promptForStep(
                  [session EXCEPT !.data.activity_type = normalizeActivityType(trim(data.arg)),
                                  !.step = IF @ = "type" THEN "date" ELSE @]))
         [] data.name = "_edit_cancel" ->
              Eff(endSession(sessions, c), pendingMenuActionByChatId, storage, idSeq,
                  Replies(<<<<"edit_canceled">>>>))
         [] data.name = "_edit_all" -> jump("guided", "title")
         [] data.name = "_edit_preview" -> InSession(c, sendPreview(session, now, makeId))
         [] data.name = "_edit_field" -> jump("menu", data.arg)
         [] data.name = "_confirm" -> confirm(c, env)
         [] data.name = "_cancel" ->
              Eff(endSession(sessions, c), pendingMenuActionByChatId, storage, idSeq,
                  Replies(<<<<"creation_canceled">>>>))
         [] OTHER -> Answer("Unknown action")

\* --------------------------------------------------------------- inputs
\* the conversations in which dialogues are started; from the other ones
\* only delete requests are explored
DialogueChats == {"c1"}
KnownIds == {r.id : r \in storage}
IdTexts == KnownIds \cup {UnknownId}
PickerTypes == {T_distribution}
FieldSteps == {"title", "type", "date", "count", "location", "attachment", "note"}

\* an activity that an earlier dialogue has committed
Item0 == [id |-> LocalId(1), title |-> T_A, activity_type |-> T_distribution,
          date |-> Iso(1200, 1, 1, 0, 0), count |-> Num(1200), location |-> T_A,
          lat |-> Null, lng |-> Null, note |-> T_N, attachment |-> Null,
          attachment_url |-> Undef, attachment_type |-> Undef]
\* a second one, for the runs that start with two records
Item1 == [Item0 EXCEPT !.id = LocalId(2), !.title = T_N]
InitialRows == {InsertedRow(DbId(1), Item0), FileRow(Item0),
                InsertedRow(DbId(2), Item1), FileRow(Item1)}
\* the senders of the runs in which the allow-list is set
Senders == {"u1", "u2"}
\* the beginnings of the table's ids that are typed instead of a whole id:
\* fewer than six hex digits, six, the eight before the first hyphen, more
\* than eight, and all but the last
PrefixLengths == {5, 6, 8, 10, 35}
PrefixTexts == {SubSeq(id, 1, n) : id \in {i \in KnownIds : isUuidLike(i)}, n \in PrefixLengths}

Photo == Msg(Undef, Undef, FALSE, TRUE, FALSE)
SharedLocation == Msg(Undef, Undef, TRUE, FALSE, FALSE)

\* the plain answer to the prompt of a step
PlainInput(step) ==
    CASE step = "type" -> TextMsg(T_tiba)
      [] step \in {"date", "count"} -> TextMsg(T_1200)
      [] step = "attachment" -> Photo
      [] step = "note" -> TextMsg(T_N)
      [] OTHER -> TextMsg(T_A)

\* the other messages explored at a step
OtherInputs(step) ==
    CASE step = "date" -> {TextMsg(T_A), TextMsg(T_skip)}
      [] step = "location" -> {SharedLocation, TextMsg(T_skip), TextMsg(T_TypeLocation),
                               TextMsg(T_SendMyLocation)}
      [] step = "attachment" -> {TextMsg(T_skip), TextMsg(T_A), SharedLocation}
      [] step \in FieldSteps -> {TextMsg(T_skip)}
      [] OTHER -> {}

\* the collaborator outcomes that can differ for an event
GeoOutcomes(c, msg) ==
    IF Has(c) /\ Sess(c).step = "location" /\ msg = TextMsg(T_A) THEN BOOLEAN ELSE {TRUE}
DownloadOutcomes(c, msg) ==
    IF Has(c) /\ Sess(c).step = "attachment" /\ (msg.photo \/ msg.document) THEN BOOLEAN ELSE {TRUE}

\* the outcomes explored for a button press: object storage and the
\* announcement channel work, are not configured or fail, the write succeeds
\* or fails (and then nothing is announced), for a Confirm; and the handler
\* itself fares well or not, with the collaborators at their plain outcome
PlainOutcome == Env(TRUE, TRUE, "none", "ok", "ok")
\* the steps at whose prompt a button is shown
ShownAt(data) ==
    CASE data.name \in {"_confirm", "_cancel"} -> {"confirming"}
      [] data.name = "_noop" -> {"title"}
      [] data.name = "_set_type" -> {"type"}
      [] OTHER -> {"edit_menu"}
CallbackOutcomes(c, data) ==
    IF ~Has(c) THEN {PlainOutcome}
    ELSE {WithTx(PlainOutcome, tx) :
             tx \in IF Sess(c).step \in ShownAt(data) THEN {"ok", "fail", "throw"} ELSE {"ok"}}
         \cup (IF data.name # "_confirm" THEN {}
               ELSE {Env(TRUE, TRUE, r2, "ok", ann) :
                        r2 \in {"ok", "none", "fail"}, ann \in {"ok", "none", "fail"}}
                    \cup {Env(TRUE, TRUE, r2, "fail", "none") : r2 \in {"ok", "none", "fail"}})

\* no dialogue and no quick entry has written a record yet
Fresh == \A r \in storage : r \in InitialRows

\* dialogue starts and quick entries are explored in a chat with no menu
\* action pending, and until a record has been written
Starting(c) == pendingMenuActionByChatId[c] = "null" /\ Fresh

\* ------------------------------------------------------------- actions
\* /new, \new and the New-activity button
IsNewRequest(e) ==
    IF e.kind = "callback" THEN e.data.name = "_menu_new"
    ELSE e.kind = "message" /\ e.msg.text \in {C_new, B_new}

\* a waiting handler holds the session object it looked up: once the chat's
\* session is ended or replaced, that object is no longer the one in the store
Parted(e, event, c) ==
    \/ c \notin DOMAIN e.sessions
    \/ event.chat = c /\ IsNewRequest(event) /\ event.env.tx = "ok"
Detach(susp, e, event) ==
    [i \in DOMAIN susp |->
        [susp[i] EXCEPT !.detached = @ \/ Parted(e, event, susp[i].chat)]]

\* an event has been handled with effect e, and susp are the handlers waiting
Handle(e, event, susp) ==
    /\ sessions' = e.sessions
    /\ pendingMenuActionByChatId' = e.pending
    /\ storage' = e.storage
    /\ idSeq' = e.idSeq
    /\ out' = e.out
    /\ ev' = event
    /\ suspended' = Detach(susp, e, event)
    /\ UNCHANGED <<dbEnabled, clock, ALLOWED, recap, cron, polling>>

Apply(e, event) == Handle(e, event, suspended)

\* an input off the plain path uses up one of MaxDetours
Detour(off) ==
    /\ off => detours < MaxDetours
    /\ detours' = IF off THEN detours + 1 ELSE detours

Tick ==
    /\ clock < MaxClock
    /\ Fresh
    /\ Detour(TRUE)
    /\ clock' = clock + 1
    /\ ev' = Event("", "", "tick", NoMsg, NoData, NoEnv)
    /\ out' = NoOut
    /\ UNCHANGED <<sessions, pendingMenuActionByChatId, storage, dbEnabled, idSeq, suspended,
                   ALLOWED, recap, cron, polling>>

\* bot.on('message') for a message that is no command
OnMessage(c, u) ==
    \E msg \in (IF Has(c) THEN {PlainInput(Sess(c).step)} \cup OtherInputs(Sess(c).step)
                ELSE IF pendingMenuActionByChatId[c] # "null" THEN {TextMsg(t) : t \in IdTexts}
                ELSE {TextMsg(T_A)}) :
    \E geo \in GeoOutcomes(c, msg), dl \in DownloadOutcomes(c, msg) :
    \E tx \in (IF Has(c) /\ msg = PlainInput(Sess(c).step) /\ geo /\ dl
                THEN {"ok", "fail", "throw"} ELSE {"ok"}) :
        LET menuAction == pendingMenuActionByChatId[c]
            raw == normalizeText(msg.text)
            cleared == [pendingMenuActionByChatId EXCEPT ![c] = "null"]
            e == IF ~Has(c) /\ menuAction # "null"
                 THEN [(IF raw = << >> THEN Say(<<<<"send_the_id">>>>)
                        ELSE IF menuAction = "edit" THEN beginEditFlow(c, u, raw, clock)
                        ELSE handleDeleteById(c, u, raw, "ok"))
                       EXCEPT !.pending = cleared]
                 ELSE IF ~Has(c) THEN Say(<< >>)
                 ELSE IF tx = "throw" THEN sessionError(c)
                 ELSE Faring(tx, InSession(c, StepMachine(Sess(c), msg, geo, dl, clock, makeId)))
        IN /\ ~IsBackslashText(msg.text) /\ ~IsCommandText(msg.text)
           /\ Fresh
           /\ Detour(Has(c) /\ (msg # PlainInput(Sess(c).step) \/ ~geo \/ ~dl \/ tx # "ok"))
           /\ Apply(e, Event(c, u, "message", msg, NoData,
                           WithTx(Env(geo, dl, "none", "ok", "none"), tx)))

\* a command sent as text reaches its onText handler, or, written with a
\* backslash, the branch of the 'message' handler for it
Routed(text, word, ignoreCase) ==
    IF IsBackslashText(text) THEN BackslashCmd(text) = word
    ELSE IsCommandText(text) /\ OnText(text, word, ignoreCase)

OnNew(c, u) ==
    \E text \in {C_new, B_new} :
        /\ Routed(text, <<"n", "e", "w">>, FALSE)
        /\ Starting(c)
        /\ Detour(FALSE)
        /\ Apply(beginGuidedFlow(c, u), Event(c, u, "message", TextMsg(text), NoData, NoEnv))

OnCancel(c, u) ==
    \E text \in {C_cancel, B_cancel}, tx \in {"ok", "fail"} :
        /\ Routed(text, <<"c", "a", "n", "c", "e", "l">>, FALSE)
        /\ Fresh
        /\ IsBackslashText(text) => ~Has(c)
        /\ tx # "ok" => Has(c)
        /\ Detour(tx # "ok")
        /\ Apply(Faring(tx, cancel(c, <<"canceled">>)),
                 Event(c, u, "message", TextMsg(text), NoData, WithTx(NoEnv, tx)))

OnSkip(c, u) ==
    \E text \in {C_skip, C_skipAt, B_skip}, tx \in {"ok", "fail", "throw"} :
        /\ Routed(text, T_skip, TRUE)
        /\ Fresh
        /\ text # C_skip => (IF Has(c) THEN Sess(c).step = "count" ELSE TRUE)
        /\ tx # "ok" => Has(c) /\ text = C_skip
        /\ Detour(Has(c))
        /\ Apply(skip(c, IF IsBackslashText(text) THEN <<<<"no_active_session">>>> ELSE << >>,
                      clock, tx),
                 Event(c, u, "message", TextMsg(text), NoData, WithTx(NoEnv, tx)))

OnBack(c, u) ==
    \E text \in {C_back, B_back}, tx \in {"ok", "fail", "throw"} :
        /\ Routed(text, <<"b", "a", "c", "k">>, TRUE)
        /\ Fresh
        /\ IsBackslashText(text) => (IF Has(c) THEN isEditMenuMode(Sess(c)) ELSE TRUE)
        /\ tx # "ok" => Has(c) /\ text = C_back
        /\ Detour(IF Has(c) THEN ~isEditMenuMode(Sess(c)) \/ tx # "ok" ELSE FALSE)
        /\ Apply(back(c, IF IsBackslashText(text) THEN <<<<"no_active_session">>>> ELSE << >>, tx),
                 Event(c, u, "message", TextMsg(text), NoData, WithTx(NoEnv, tx)))

EditRequest(c, u, ids) ==
    \E id \in ids :
        LET text == C_edit \o id
        IN /\ Routed(text, <<"e", "d", "i", "t">>, TRUE)
           /\ Starting(c)
           /\ Detour(Has(c))
           /\ Apply(beginEditFlow(c, u, CmdArg(text), clock),
                    Event(c, u, "message", TextMsg(text), NoData, NoEnv))

OnEdit(c, u) == EditRequest(c, u, IdTexts)

DeleteRequest(c, u, ids) ==
    \E id \in ids, st \in {"ok", "fail"} :
        LET text == C_delete \o id
        IN /\ Routed(text, <<"d", "e", "l", "e", "t", "e">>, TRUE)
           /\ st = "fail" => ~Has(c) /\ id \in KnownIds
           /\ c \notin DialogueChats => id \in KnownIds /\ st = "ok"
           /\ Detour(Has(c) \/ handleDeleteById(c, u, CmdArg(text), st).storage # storage)
           /\ Apply(handleDeleteById(c, u, CmdArg(text), st),
                    Event(c, u, "message", TextMsg(text), NoData, Env(TRUE, TRUE, "none", st, "none")))

OnDelete(c, u) == DeleteRequest(c, u, IdTexts)

OnAdd(c, u) ==
    \E st \in {"ok", "fail"} :
        /\ Routed(C_add, <<"a", "d", "d">>, TRUE)
        /\ Starting(c)
        /\ Detour(Has(c))
        /\ Apply(quickAdd(c, u, CmdArg(C_add), clock, st),
                 Event(c, u, "message", TextMsg(C_add), NoData, Env(TRUE, TRUE, "none", st, "none")))

\* the branches of the callback_query handler that work without a session
OnMenuCallback(c, u) ==
    \E data \in {Data("_menu_new", Undef), Data("_menu_cancel", Undef), Data("_menu_edit", Undef),
                 Data("_menu_delete", Undef)}
                \cup {Data("_list_edit", id) : id \in IdTexts}
                \cup {Data("_list_delete", id) : id \in IdTexts} :
    \E tx \in {"ok", "fail"} :
        LET ok == CASE data.name = "_menu_new" -> beginGuidedFlow(c, u)
                   [] data.name = "_menu_cancel" -> cancel(c, <<"canceled">>)
                   [] data.name \in {"_menu_edit", "_menu_delete"} ->
                        Eff(sessions,
                            [pendingMenuActionByChatId EXCEPT
                                ![c] = IF data.name = "_menu_edit" THEN "edit" ELSE "delete"],
                            storage, idSeq, Replies(<<<<"send_the_id">>>>))
                   [] data.name = "_list_edit" -> beginEditFlow(c, u, trim(data.arg), clock)
                   [] OTHER -> handleDeleteById(c, u, trim(data.arg), "ok")
            \* each branch first waits for the answer to the button press; the
            \* two that ask for an id have noted the pending action before
            e == IF tx = "ok" THEN ok
                 ELSE IF data.name \in {"_menu_edit", "_menu_delete"} THEN Unsent(ok)
                 ELSE Say(<< >>)
        IN /\ Fresh
           /\ tx # "ok" => Has(c) /\ data.name \in {"_menu_new", "_menu_cancel"}
           /\ data.name \in {"_menu_new", "_list_edit"} => Starting(c)
           /\ data.name \in {"_menu_edit", "_menu_delete"} => Starting(c) /\ ~Has(c)
           /\ Detour(\/ Has(c) /\ data.name \in {"_list_edit", "_list_delete"}
                     \/ data.name = "_list_delete" /\ data.arg \in KnownIds
                     \/ tx # "ok")
           /\ Apply(e, Event(c, u, "callback", NoMsg, data, WithTx(NoEnv, tx)))

\* the branches of the callback_query handler that look the session up
OnSessionCallback(c, u) ==
    \E data \in {Data("_set_type", t) : t \in PickerTypes}
                \cup {Data("_edit_field", f) : f \in FieldSteps}
                \cup {Data(n, Undef) : n \in {"_edit_cancel", "_edit_all", "_edit_preview",
                                              "_confirm", "_cancel", "_noop"}} :
    \E env \in CallbackOutcomes(c, data) :
        LET plain == PlainOutcome
            tx == env.tx
            \* a jump to a field and an outcome that is not plain are detours
            shown == IF data.name = "_edit_field" \/ env # plain THEN {} ELSE ShownAt(data)
        IN /\ Has(c) \/ Fresh \/ data.name = "_confirm"
           /\ (Has(c) /\ data.name \in {"_edit_field", "_edit_all", "_edit_preview", "_edit_cancel"})
                 => Sess(c).mode = "edit"
           /\ Detour(Has(c) /\ Sess(c).step \notin shown)
           /\ Apply(IF ~Has(c) THEN Answer("Session expired.")
                    ELSE sessionCallback(c, data, env, clock),
                    Event(c, u, "callback", NoMsg, data, env))

\* -------------------------------------------------------- specification
Init ==
    /\ sessions = << >>
    /\ pendingMenuActionByChatId = [c \in Chats |-> "null"]
    /\ dbEnabled \in BOOLEAN
    /\ storage = {IF dbEnabled THEN InsertedRow(DbId(1), Item0) ELSE FileRow(Item0)}
    /\ idSeq = 1
    /\ clock = 0
    /\ ev = Event("", "", "tick", NoMsg, NoData, NoEnv)
    /\ out = NoOut
    /\ detours = 0
    /\ suspended = << >>
    \* the dialogue is explored with the allow-list left empty
    /\ ALLOWED = {}
    /\ Aside

Next ==
    \/ Tick
    \/ \E c \in DialogueChats, u \in Users : OnMessage(c, u)
    \/ \E c \in DialogueChats, u \in Users : OnNew(c, u)
    \/ \E c \in DialogueChats, u \in Users : OnCancel(c, u)
    \/ \E c \in DialogueChats, u \in Users : OnSkip(c, u)
    \/ \E c \in DialogueChats, u \in Users : OnBack(c, u)
    \/ \E c \in DialogueChats, u \in Users : OnEdit(c, u)
    \/ \E c \in Chats, u \in Users : OnDelete(c, u)
    \/ \E c \in DialogueChats, u \in Users : OnAdd(c, u)
    \/ \E c \in DialogueChats, u \in Users : OnMenuCallback(c, u)
    \/ \E c \in DialogueChats, u \in Users : OnSessionCallback(c, u)

Spec == Init /\ [][Next]_vars

\* ------------------------------------------------- handlers that wait
\* The handlers are async functions: at an await of geocodeLocation, of
\* downloadFile or of the write of _confirm a handler returns to the event
\* loop, which hands the next events to their handlers, and it goes on when
\* the collaborator has answered.  A waiting handler is the chat, what it
\* waits for, the session object s it holds, the text or the kind of upload it
\* works on, whether s has left the store, and whether the collaborator is
\* going to answer at all.
Waiting(c, u, kind, s, arg, answers) ==
    [chat |-> c, user |-> u, kind |-> kind, s |-> s, arg |-> arg, detached |-> FALSE,
     answers |-> answers]
Without(seq, i) == SubSeq(seq, 1, i - 1) \o SubSeq(seq, i + 1, Len(seq))
\* the 'message' handler at the location step calls geocodeLocation
SuspendGeocode(c, u) ==
    \E answers \in BOOLEAN :
        /\ Has(c) /\ Fresh /\ Len(suspended) < MaxSuspended
        /\ IF Has(c) THEN Sess(c).step = "location" ELSE FALSE
        /\ Detour(TRUE)
        /\ Handle(Say(<< >>), Event(c, u, "suspend", TextMsg(T_A), NoData, NoEnv),
                  Append(suspended, Waiting(c, u, "geocode", Sess(c), trim(T_A), answers)))

\* the 'message' handler at the attachment step calls downloadFile
SuspendDownload(c, u) ==
    /\ Has(c) /\ Fresh /\ Len(suspended) < MaxSuspended
    /\ IF Has(c) THEN Sess(c).step = "attachment" ELSE FALSE
    /\ Detour(TRUE)
    /\ Handle(Say(<< >>), Event(c, u, "suspend", Photo, NoData, NoEnv),
              Append(suspended, Waiting(c, u, "download", Sess(c), "photo", TRUE)))

\* the _confirm branch has finalized the staged record and issues the write
SuspendCommit(c, u) ==
    /\ Has(c) /\ Fresh /\ Len(suspended) < MaxSuspended
    /\ IF Has(c) THEN Sess(c).pending # << >> ELSE FALSE
    /\ Detour(TRUE)
    /\ LET s1 == finalizedSession(Sess(c), "none")
       IN Handle(InSession(c, Res(s1, << >>)),
                 Event(c, u, "suspend", NoMsg, Data("_confirm", Undef), NoEnv),
                 Append(suspended, Waiting(c, u, "commit", s1, << >>, TRUE)))

\* the _confirm branch goes on after the write: with the session object and
\* the record it holds, and ending whatever session the chat has by then
resumeCommit(c, s, env) ==
    LET p == Persist(s.mode, s.pending[1])
    IN IF env.st = "fail"
       THEN Eff(sessions, pendingMenuActionByChatId, storage, idSeq,
                [NoOut EXCEPT !.ops = <<p.op \o <<"fail">>>>])
       ELSE Eff(endSession(sessions, c), pendingMenuActionByChatId, p.storage, p.ids,
                confirmTail(c, s, p, env).out)

\* the 'message' handler goes on after its await: it writes into the session
\* object it holds, which is the chat's session unless that has been ended or
\* replaced, and its catch ends the session the chat has by then
resumeStep(h, geo, dl, tx) ==
    LET live == ~h.detached
        s == IF live THEN Sess(h.chat) ELSE h.s
        r == IF h.kind = "geocode" THEN afterGeocode(s, h.arg, geo)
             ELSE afterDownload(s, h.arg, dl)
    IN IF tx = "throw" THEN sessionError(h.chat)
       ELSE IF live THEN InSession(h.chat, r)
       ELSE Say(r.replies)

\* a collaborator answers and the handler that waited for it goes on
Resume ==
    \E i \in DOMAIN suspended :
    \E geo \in BOOLEAN, dl \in BOOLEAN, st \in {"ok", "fail"}, tx \in {"ok", "throw"} :
        LET h == suspended[i]
            env == WithTx(Env(geo, dl, "none", st, "ok"), tx)
        IN /\ h.answers
           /\ h.kind # "geocode" => geo
           /\ h.kind # "download" => dl
           /\ h.kind # "commit" => st = "ok"
           /\ h.kind = "commit" => tx = "ok"
           /\ Detour(FALSE)
           /\ Handle(IF h.kind = "commit" THEN resumeCommit(h.chat, h.s, env)
                     ELSE resumeStep(h, geo, dl, tx),
                     Event(h.chat, h.user, "resume", NoMsg, Data(h.kind, h.detached), env),
                     Without(suspended, i))

NextAsync ==
    \/ Next
    \/ \E c \in DialogueChats, u \in Users : SuspendGeocode(c, u)
    \/ \E c \in DialogueChats, u \in Users : SuspendDownload(c, u)
    \/ \E c \in DialogueChats, u \in Users : SuspendCommit(c, u)
    \/ Resume

SpecAsync == Init /\ [][NextAsync]_vars
\* every collaborator that is going to answer does so
SpecAsyncFair == SpecAsync /\ WF_vars(Resume)

\* ------------------------------------------------------------- requests
\* The requests that start a dialogue or change the records, from senders on
\* and off the allow-list, with whole ids and with beginnings of ids, in a
\* bot that starts with two records whose ids begin alike.
C_help == <<"/", "h", "e", "l", "p">>
C_list == <<"/", "l", "i", "s", "t">>

OnHelp(c, u) ==
    /\ Routed(C_help, <<"h", "e", "l", "p">>, FALSE)
    /\ Detour(FALSE)
    /\ Apply(Say(<<<<"help">>>>), Event(c, u, "message", TextMsg(C_help), NoData, NoEnv))

\* sendRecentListPage: the page, or the notice that reading the records failed
OnList(c, u) ==
    \E st \in {"ok", "fail"} :
        /\ Routed(C_list, <<"l", "i", "s", "t">>, TRUE)
        /\ st = "fail" => dbEnabled
        /\ Detour(FALSE)
        /\ Apply(Say(<<<<IF st = "ok" THEN "list" ELSE "list_failed">>>>),
                 Event(c, u, "message", TextMsg(C_list), NoData,
                       Env(TRUE, TRUE, "none", st, "none")))

\* bot.on('message') for the text sent after the Edit or the Delete button
OnIdEntry(c, u) ==
    /\ ~Has(c)
    /\ OnMessage(c, u)

InitRequests ==
    /\ sessions = << >>
    /\ pendingMenuActionByChatId = [c \in Chats |-> "null"]
    /\ dbEnabled \in BOOLEAN
    /\ storage = IF dbEnabled THEN {InsertedRow(DbId(1), Item0), InsertedRow(DbId(2), Item1)}
                 ELSE {FileRow(Item0), FileRow(Item1)}
    /\ idSeq = 2
    /\ clock = 0
    /\ ev = Event("", "", "tick", NoMsg, NoData, NoEnv)
    /\ out = NoOut
    /\ detours = 0
    /\ suspended = << >>
    /\ ALLOWED \in {{}, {"u1"}}
    /\ Aside

NextRequests ==
    \/ \E c \in DialogueChats, u \in Senders : OnNew(c, u)
    \/ \E c \in DialogueChats, u \in Senders : OnCancel(c, u)
    \/ \E c \in DialogueChats, u \in Senders : EditRequest(c, u, IdTexts \cup PrefixTexts)
    \/ \E c \in DialogueChats, u \in Senders : DeleteRequest(c, u, IdTexts \cup PrefixTexts)
    \/ \E c \in DialogueChats, u \in Senders : OnAdd(c, u)
    \/ \E c \in DialogueChats, u \in Senders : OnMenuCallback(c, u)
    \/ \E c \in DialogueChats, u \in Senders : OnIdEntry(c, u)
    \/ \E c \in DialogueChats, u \in Senders : OnHelp(c, u)
    \/ \E c \in DialogueChats, u \in Senders : OnList(c, u)

SpecRequests == InitRequests /\ [][NextRequests]_vars

\* -------------------------------------------------------------- revisit
\* The dialogue from the point where a create dialogue has answered title,
\* type, date and count plainly, has given its location (a place the geocoder
\* finds or does not find, or a shared location) and has stepped back to the
\* location step.
Answered(s, msg, geo) == StepMachine(s, msg, geo, TRUE, 0, LocalId(2)).s
RevisitSessions ==
    LET s0 == startSession(<< >>, "c1", "u1", "create")["c1"]
        s1 == Answered(s0, PlainInput("title"), TRUE)
        s2 == Answered(s1, PlainInput("type"), TRUE)
        s3 == Answered(s2, PlainInput("date"), TRUE)
        s4 == Answered(s3, PlainInput("count"), TRUE)
    IN {backStep(Answered(s4, m, geo)).s :
            m \in {PlainInput("location"), SharedLocation}, geo \in BOOLEAN}

InitRevisit ==
    /\ sessions \in {[c \in {"c1"} |-> s] : s \in RevisitSessions}
    /\ pendingMenuActionByChatId = [c \in Chats |-> "null"]
    /\ dbEnabled \in BOOLEAN
    /\ storage = {IF dbEnabled THEN InsertedRow(DbId(1), Item0) ELSE FileRow(Item0)}
    /\ idSeq = 1
    /\ clock = 0
    /\ ev = Event("", "", "tick", NoMsg, NoData, NoEnv)
    /\ out = NoOut
    /\ detours = 0
    /\ suspended = << >>
    /\ ALLOWED = {}
    /\ Aside

SpecRevisit == InitRevisit /\ [][Next]_vars

\* ------------------------------------------------- the count question
\* parseCountNumberLoose of the map page: a number is rounded, a text gives
\* the digits of its first digit run, every other character of it removed
parseCountNumberLoose(value) ==
    IF value \in {Null, Undef} THEN Null
    ELSE IF ~IsText(value)
         THEN <<"#num", value[2] + (IF value[3] # << >> /\ DigitVal[value[3][1]] >= 5 THEN 1 ELSE 0), << >>>>
    ELSE LET t == trim(value)
             i == FirstDigit(t)
             j == RunEnd(t, i)
         IN IF t = << >> \/ i = 0 THEN Null
            ELSE <<"#num", ParseNat(Remove(SubSeq(t, i, j), DigitRunChars \ Digits)), << >>>>

MaxGroup == 3
T_Mushaf == <<"M", "u", "s", "h", "a", "f">>
GroupDigits == {"0", "1", "5"}
DigitGroups == UNION {[1..k -> GroupDigits] : k \in 1..MaxGroup}
GroupSeparators == {<<",">>, <<".">>, <<" ">>, <<"_">>}
CountSuffixes == {<< >>, <<" ">> \o T_Mushaf, <<" ", "b", "o", "x">>}
CountSamples ==
    {<<"1", ",", "2", "0", "0", " ">> \o T_Mushaf, <<"8", "0", "0", "0">>, <<"0">>,
     <<"a", "p", "p", "r", "o", "x", "i", "m", "a", "t", "e", "l", "y", " ", "f", "i", "f", "t", "y">>,
     T_skip, <<"1", "2", " ">> \o T_mushafs, <<"a", " ", "1", "2">>,
     <<"1", ",", "0", "0", "0", ",", "0", "0", "0">>}
CountTexts ==
    CountSamples
    \cup {g \o suf : g \in DigitGroups, suf \in CountSuffixes}
    \cup {g \o sep \o h \o suf : g \in DigitGroups, sep \in GroupSeparators,
                                  h \in [1..3 -> {"0"}] \cup [1..3 -> {"5"}] \cup [1..2 -> {"0"}],
                                  suf \in CountSuffixes}

\* bot.on('message') for a text sent while the count is asked
CountAnswer(c, u) ==
    \E raw \in CountTexts :
        LET msg == TextMsg(raw)
        IN /\ Has(c) /\ Sess(c).step = "count"
           /\ ~IsBackslashText(msg.text) /\ ~IsCommandText(msg.text)
           /\ Fresh
           /\ Detour(FALSE)
           /\ Apply(InSession(c, StepMachine(Sess(c), msg, TRUE, TRUE, clock, makeId)),
                    Event(c, u, "message", msg, NoData, Env(TRUE, TRUE, "none", "ok", "none")))

InitCount ==
    /\ sessions \in {[c \in {"c1"} |-> Answered(s, PlainInput("date"), TRUE)] :
                        s \in {Answered(Answered(startSession(<< >>, "c1", "u1", "create")["c1"],
                                                 PlainInput("title"), TRUE),
                                        PlainInput("type"), TRUE)}}
    /\ pendingMenuActionByChatId = [c \in Chats |-> "null"]
    /\ dbEnabled \in BOOLEAN
    /\ storage = {IF dbEnabled THEN InsertedRow(DbId(1), Item0) ELSE FileRow(Item0)}
    /\ idSeq = 1
    /\ clock = 0
    /\ ev = Event("", "", "tick", NoMsg, NoData, NoEnv)
    /\ out = NoOut
    /\ detours = 0
    /\ suspended = << >>
    /\ ALLOWED = {}
    /\ Aside

NextCount == \E c \in DOMAIN sessions : CountAnswer(c, Sess(c).userId)

SpecCount == InitCount /\ [][NextCount]_vars

\* -------------------------------------------------- the type question
Capitalized(w) ==
    IF \E C \in DOMAIN UpperMap : UpperMap[C] = w[1]
    THEN <<CHOOSE C \in DOMAIN UpperMap : UpperMap[C] = w[1]>> \o Tail(w)
    ELSE w
\* the texts sent at the type question: the known words as they are and
\* capitalized, and words the vocabulary does not hold
TypeTexts ==
    {w[1] : w \in TypeWords} \cup {Capitalized(w[1]) : w \in TypeWords}
    \cup {T_other, T_skip, T_A, T_N, <<"m", "y", " ", "t", "r", "i", "p">>}
\* the buttons of the type picker
TypeButtons == {T_transit, T_arrival, T_distribution, T_class, T_completion, T_update}

\* bot.on('message') for a text sent while the type is asked
TypeAnswer(c, u) ==
    \E raw \in TypeTexts :
        LET msg == TextMsg(raw)
        IN /\ Has(c) /\ Sess(c).step = "type"
           /\ ~IsBackslashText(msg.text) /\ ~IsCommandText(msg.text)
           /\ Fresh
           /\ Detour(FALSE)
           /\ Apply(InSession(c, StepMachine(Sess(c), msg, TRUE, TRUE, clock, makeId)),
                    Event(c, u, "message", msg, NoData, Env(TRUE, TRUE, "none", "ok", "none")))

\* bot.on('callback_query') for a button of the type picker
TypePick(c, u) ==
    \E t \in TypeButtons :
        /\ Has(c) /\ Sess(c).step = "type"
        /\ Fresh
        /\ Detour(FALSE)
        /\ Apply(sessionCallback(c, Data("_set_type", t), PlainOutcome, clock),
                 Event(c, u, "callback", NoMsg, Data("_set_type", t), PlainOutcome))

InitType ==
    /\ sessions \in {[c \in {"c1"} |-> Answered(startSession(<< >>, "c1", "u1", "create")["c1"],
                                                 TextMsg(title), TRUE)] : title \in {T_A, T_N}}
    /\ pendingMenuActionByChatId = [c \in Chats |-> "null"]
    /\ dbEnabled \in BOOLEAN
    /\ storage = {IF dbEnabled THEN InsertedRow(DbId(1), Item0) ELSE FileRow(Item0)}
    /\ idSeq = 1
    /\ clock = 0
    /\ ev = Event("", "", "tick", NoMsg, NoData, NoEnv)
    /\ out = NoOut
    /\ detours = 0
    /\ suspended = << >>
    /\ ALLOWED = {}
    /\ Aside

NextType ==
    \/ \E c \in DOMAIN sessions : TypeAnswer(c, Sess(c).userId)
    \/ \E c \in DOMAIN sessions : TypePick(c, Sess(c).userId)

SpecType == InitType /\ [][NextType]_vars

\* ------------------------------------------------- two conversations
\* two chats, each in a dialogue of its own
PairSessions == {Answered(s, SharedLocation, TRUE) : s \in RevisitSessions}

InitPair ==
    /\ sessions \in [Chats -> PairSessions]
    /\ pendingMenuActionByChatId = [c \in Chats |-> "null"]
    /\ dbEnabled \in BOOLEAN
    /\ storage = {IF dbEnabled THEN InsertedRow(DbId(1), Item0) ELSE FileRow(Item0)}
    /\ idSeq = 1
    /\ clock = 0
    /\ ev = Event("", "", "tick", NoMsg, NoData, NoEnv)
    /\ out = NoOut
    /\ detours = 0
    /\ suspended = << >>
    /\ ALLOWED = {}
    /\ Aside

NextPair ==
    \/ \E c \in Chats, u \in Users : OnMessage(c, u)
    \/ \E c \in Chats, u \in Users : OnCancel(c, u)
    \/ \E c \in Chats, u \in Users : OnSkip(c, u)
    \/ \E c \in Chats, u \in Users : OnBack(c, u)
    \/ \E c \in Chats, u \in Users : OnSessionCallback(c, u)

SpecPair == InitPair /\ [][NextPair]_vars

\* ------------------------------------------- buttons of an earlier menu
\* bot.on('callback_query') for a button of an edit menu that an earlier
\* edit dialogue left in the chat, pressed while a create dialogue runs
OldMenuButton(c, u) ==
    \E data \in {Data("_edit_field", f) : f \in FieldSteps}
                \cup {Data(n, Undef) : n \in {"_edit_cancel", "_edit_all", "_edit_preview"}} :
        /\ Has(c) /\ Sess(c).mode = "create"
        /\ Fresh
        /\ Detour(TRUE)
        /\ Apply(sessionCallback(c, data, PlainOutcome, clock),
                 Event(c, u, "callback", NoMsg, data, PlainOutcome))

NextStale ==
    \/ \E c \in DialogueChats, u \in Users : OnMessage(c, u)
    \/ \E c \in DialogueChats, u \in Users : OnSkip(c, u)
    \/ \E c \in DialogueChats, u \in Users : OldMenuButton(c, u)

SpecStale == InitType /\ [][NextStale]_vars

\* ------------------------------------------- two senders in one chat
\* a chat with two senders: the first has started the dialogue, and the
\* allow-list is empty or names the first only
InitOwner ==
    /\ sessions \in {[c \in {"c1"} |-> s] : s \in PairSessions}
    /\ pendingMenuActionByChatId = [c \in Chats |-> "null"]
    /\ dbEnabled \in BOOLEAN
    /\ storage = {IF dbEnabled THEN InsertedRow(DbId(1), Item0) ELSE FileRow(Item0)}
    /\ idSeq = 1
    /\ clock = 0
    /\ ev = Event("", "", "tick", NoMsg, NoData, NoEnv)
    /\ out = NoOut
    /\ detours = 0
    /\ suspended = << >>
    /\ ALLOWED \in {{}, {"u1"}}
    /\ Aside

NextOwner ==
    \/ \E c \in DialogueChats, u \in Senders : OnMessage(c, u)
    \/ \E c \in DialogueChats, u \in Senders : OnCancel(c, u)
    \/ \E c \in DialogueChats, u \in Senders : OnSkip(c, u)
    \/ \E c \in DialogueChats, u \in Senders : OnBack(c, u)
    \/ \E c \in DialogueChats, u \in Senders : OnSessionCallback(c, u)

SpecOwner == InitOwner /\ [][NextOwner]_vars

\* ------------------------------------------------- the recap scheduler
\* recap-scheduler.js.  Instants are counted in units of 30 seconds, the
\* length of the pause that ends a turn of the loop of main().
DayLen == 2880
HourLen == 120
MinuteLen == 2
BufferLen == 1
MaxDays == 2

Max2(a, b) == IF a >= b THEN a ELSE b
Min2(a, b) == IF a <= b THEN a ELSE b
\* Date.UTC(y, m, d, hh, mm) of the day that holds the local instant t
LocalMidnight(t) == (t \div DayLen) * DayLen

\* a computeNextRunUtc that never moves the target to the next day
computeNextRunUtc_Today(now, tz, HH, MM) ==
    LET offset == tz * MinuteLen
        localNow == now + offset
        hh == Max2(0, Min2(23, HH))
        mm == Max2(0, Min2(59, MM))
        today == LocalMidnight(localNow) + hh * HourLen + mm * MinuteLen
    IN [utcTarget |-> today - offset, localTarget |-> today]
computeNextRunUtc(now, tz, HH, MM) ==
    LET offset == tz * MinuteLen
        localNow == now + offset
        hh == Max2(0, Min2(23, HH))
        mm == Max2(0, Min2(59, MM))
        today == LocalMidnight(localNow) + hh * HourLen + mm * MinuteLen
        localTarget == IF today <= localNow THEN today + DayLen ELSE today
    IN [utcTarget |-> localTarget - offset, localTarget |-> localTarget]

\* RECAP_TZ_OFFSET_MINUTES, RECAP_RUN_LOCAL_HH and RECAP_RUN_LOCAL_MM
RecapSettings == {<<480, 22, 0>>, <<0, 0, 0>>, <<-300, 23, 59>>, <<330, 9, 30>>}
\* the instants at which the service is started: around every third hour
RecapStarts == {DayLen + h * 3 * HourLen + e : h \in 0..7, e \in {-1, 0, 1}}
\* how long recap-daily.js runs, and how late a timer fires
RecapDurations == {0, 1, HourLen, DayLen}
TimerLateness == {0, 1}

InitRecap ==
    /\ sessions = << >>
    /\ pendingMenuActionByChatId = [c \in Chats |-> "null"]
    /\ dbEnabled = FALSE
    /\ storage = {FileRow(Item0)}
    /\ idSeq = 1
    /\ clock = 0
    /\ ev = Event("", "", "tick", NoMsg, NoData, NoEnv)
    /\ out = NoOut
    /\ detours = 0
    /\ suspended = << >>
    /\ ALLOWED = {}
    /\ cron = Off /\ polling = Off
    /\ recap \in {[pc |-> "compute", now |-> t, tz |-> c[1], HH |-> c[2], MM |-> c[3],
                   utcTarget |-> 0, asked |-> t, ran |-> << >>] :
                     t \in RecapStarts, c \in RecapSettings}

\* main(): const { utcTarget } = computeNextRunUtc(new Date())
RecapCompute ==
    /\ recap.pc = "compute" /\ recap.now < (MaxDays + 1) * DayLen
    /\ recap' = [recap EXCEPT !.pc = "sleep", !.asked = recap.now,
                              !.utcTarget = computeNextRunUtc(recap.now, recap.tz, recap.HH,
                                                              recap.MM).utcTarget]
    /\ UNCHANGED <<botVars, cron, polling>>
\* await sleep(waitMs) ends and runOnce() spawns recap-daily.js
RecapLaunch ==
    /\ recap.pc = "sleep"
    /\ \E late \in TimerLateness :
         LET t == recap.now + Max2(0, recap.utcTarget - recap.now) + late
         IN recap' = [recap EXCEPT !.pc = "run", !.now = t,
                                   !.ran = Append(recap.ran, [target |-> recap.utcTarget, at |-> t])]
    /\ UNCHANGED <<botVars, cron, polling>>
\* the child exits
RecapExit ==
    /\ recap.pc = "run"
    /\ \E d \in RecapDurations : recap' = [recap EXCEPT !.pc = "buffer", !.now = recap.now + d]
    /\ UNCHANGED <<botVars, cron, polling>>
\* await sleep(30_000) ends
RecapBuffer ==
    /\ recap.pc = "buffer"
    /\ \E late \in TimerLateness :
         recap' = [recap EXCEPT !.pc = "compute", !.now = recap.now + BufferLen + late]
    /\ UNCHANGED <<botVars, cron, polling>>

NextRecap == RecapCompute \/ RecapLaunch \/ RecapExit \/ RecapBuffer

SpecRecap == InitRecap /\ [][NextRecap]_vars

\* ----------------------------------------------------- the cron poller
\* telegram-cron.php, run by cron once a minute.  cron.updates are the
\* updates Telegram holds, the n-th one with update_id n; cron.offset is
\* telegram-offset.json; cron.activities is activities.json, each activity
\* with the update that made it; cron.saved are the updates answered 'Saved'.
MaxUpdates == 3
MaxRuns == 3
UpdateKinds == {"add", "usage", "other"}

InitCron ==
    /\ sessions = << >>
    /\ pendingMenuActionByChatId = [c \in Chats |-> "null"]
    /\ dbEnabled = FALSE
    /\ storage = {FileRow(Item0)}
    /\ idSeq = 1
    /\ clock = 0
    /\ ev = Event("", "", "tick", NoMsg, NoData, NoEnv)
    /\ out = NoOut
    /\ detours = 0
    /\ suspended = << >>
    /\ ALLOWED = {}
    /\ recap = Off /\ polling = Off
    /\ cron = [pc |-> "idle", updates |-> << >>, offset |-> 0, activities |-> << >>, saved |-> {},
               runs |-> 0]

\* a message reaches the bot between two runs: '/add <title> ...', a bare
\* '/add', or something else
CronArrive ==
    /\ cron.pc = "idle" /\ Len(cron.updates) < MaxUpdates
    /\ \E k \in UpdateKinds : cron' = [cron EXCEPT !.updates = Append(@, k)]
    /\ UNCHANGED <<botVars, recap, polling>>

\* one run of the script: getUpdates from the stored offset, the loop over
\* the results, save_json of the activities and save_json of the offset
CronRun ==
    /\ cron.pc = "idle" /\ cron.runs < MaxRuns
    /\ \E fetched \in BOOLEAN, savedActivities \in BOOLEAN, savedOffset \in BOOLEAN :
         LET results == {n \in 1..Len(cron.updates) : n >= cron.offset}
             adds == {n \in results : cron.updates[n] = "add"}
             handled == Cardinality({n \in results : cron.updates[n] \in {"add", "usage"}})
             maxUpdateId == CHOOSE n \in results : \A k \in results : k <= n
             added == [i \in 1..Cardinality(adds) |->
                          CHOOSE n \in adds : Cardinality({k \in adds : k < n}) = i - 1]
         IN IF ~fetched
            THEN savedActivities /\ savedOffset /\ cron' = [cron EXCEPT !.runs = @ + 1]
            ELSE cron' = [cron EXCEPT
                             !.runs = @ + 1,
                             !.saved = @ \cup adds,
                             !.activities = IF handled > 0 /\ savedActivities
                                            THEN @ \o added ELSE @,
                             !.offset = IF results # {} /\ savedOffset
                                        THEN maxUpdateId + 1 ELSE @]
    /\ UNCHANGED <<botVars, recap, polling>>

NextCron == CronArrive \/ CronRun

SpecCron == InitCron /\ [][NextCron]_vars

\* ================================================================== polling
\* startPollingSafely and the polling_error handler of bot.js.  polling.now
\* counts minutes.  polling.starting is _pollingStarting; polling.attempts
\* holds, for every call of startPollingSafely that went past its first line
\* and has not reached its finally, the await it stands at; polling.active
\* says that the library is sending getUpdates; polling.handlers counts the
\* polling_error handlers standing at await bot.stopPolling(); polling.timers
\* are the pending setTimeout callbacks, oldest first; polling.skipped counts
\* the calls that returned at the first line.
MaxErrors == 3
MaxTime == 5
RetryDelay == 2
ErrorKinds == {"conflict", "other"}

\* the synchronous part of a call: up to await bot.deleteWebHook(...)
startPollingSafely_Unguarded(p) ==
    [p EXCEPT !.starting = TRUE, !.attempts = Append(@, "deleteWebHook")]

startPollingSafely(p) ==
    IF p.starting
    THEN [p EXCEPT !.skipped = @ + 1]
    ELSE [p EXCEPT !.starting = TRUE, !.attempts = Append(@, "deleteWebHook")]

\* the module has been loaded: the call at the end of the set-up is at its
\* first await
InitPolling ==
    /\ sessions = << >>
    /\ pendingMenuActionByChatId = [c \in Chats |-> "null"]
    /\ dbEnabled = FALSE
    /\ storage = {FileRow(Item0)}
    /\ idSeq = 1
    /\ clock = 0
    /\ ev = Event("", "", "tick", NoMsg, NoData, NoEnv)
    /\ out = NoOut
    /\ detours = 0
    /\ suspended = << >>
    /\ ALLOWED = {}
    /\ recap = Off /\ cron = Off
    /\ polling = startPollingSafely(
                    [pc |-> "on", last |-> "start", now |-> 0, starting |-> FALSE,
                     attempts |-> << >>, active |-> FALSE, handlers |-> 0,
                     timers |-> << >>, errors |-> 0, skipped |-> 0])

\* await bot.deleteWebHook(...) settles, either way, and bot.startPolling()
\* is called; the library begins to send getUpdates unless the call fails
DeleteWebHookSettled ==
    /\ polling.pc = "on"
    /\ \E i \in DOMAIN polling.attempts, begun \in BOOLEAN :
         /\ polling.attempts[i] = "deleteWebHook"
         /\ polling' = [polling EXCEPT !.last = "deleted",
                                       !.attempts[i] = "startPolling",
                                       !.active = @ \/ begun]
    /\ UNCHANGED <<botVars, recap, cron>>

\* await bot.startPolling() settles, either way: finally
StartPollingSettled ==
    /\ polling.pc = "on"
    /\ \E i \in DOMAIN polling.attempts :
         /\ polling.attempts[i] = "startPolling"
         /\ polling' = [polling EXCEPT !.last = "started",
                                       !.attempts = Without(@, i),
                                       !.starting = FALSE]
    /\ UNCHANGED <<botVars, recap, cron>>

\* the library emits polling_error for a failed getUpdates; on a 409 the
\* handler calls bot.stopPolling() and waits for it
PollingError ==
    /\ polling.pc = "on" /\ polling.active /\ polling.errors < MaxErrors
    /\ \E kind \in ErrorKinds :
         polling' = IF kind = "conflict"
                    THEN [polling EXCEPT !.last = "conflict", !.errors = @ + 1,
                                         !.active = FALSE, !.handlers = @ + 1]
                    ELSE [polling EXCEPT !.last = "other", !.errors = @ + 1]
    /\ UNCHANGED <<botVars, recap, cron>>

\* await bot.stopPolling() settles, either way: setTimeout(..., 120_000)
StopPollingSettled ==
    /\ polling.pc = "on" /\ polling.handlers > 0
    /\ polling' = [polling EXCEPT
                      !.last = "stopped", !.handlers = @ - 1,
                      !.timers = Append(@, [set |-> polling.now,
                                            due |-> polling.now + RetryDelay])]
    /\ UNCHANGED <<botVars, recap, cron>>

\* the oldest timer fires, at its time or later: startPollingSafely()
RetryTimer ==
    /\ polling.pc = "on" /\ polling.timers # << >>
    /\ polling.timers[1].due <= polling.now
    /\ polling' = [startPollingSafely([polling EXCEPT !.timers = Tail(@)])
                      EXCEPT !.last = "retry"]
    /\ UNCHANGED <<botVars, recap, cron>>

PollingTick ==
    /\ polling.pc = "on" /\ polling.now < MaxTime
    /\ polling' = [polling EXCEPT !.last = "tick", !.now = @ + 1]
    /\ UNCHANGED <<botVars, recap, cron>>

NextPolling ==
    \/ DeleteWebHookSettled
    \/ StartPollingSettled
    \/ PollingError
    \/ StopPollingSettled
    \/ RetryTimer
    \/ PollingTick

SpecPolling == InitPolling /\ [][NextPolling]_vars

\* =============================================================== properties
\* The event of a step is ev', the state it found is the unprimed one.
HadSession == ev'.chat \in DOMAIN sessions
\* the handler of the event ran to its end and the transport took its calls
Ran == ev'.env.tx = "ok"
StillHas == ev'.chat \in DOMAIN sessions'
Before == sessions[ev'.chat]
After == sessions'[ev'.chat]

IsPlainMessage(e) ==
    e.kind = "message" /\ ~IsBackslashText(e.msg.text) /\ ~IsCommandText(e.msg.text)
IsQuickAdd(e) == e.kind = "message" /\ e.msg.text = C_add
IsConfirm(e) == e.kind = "callback" /\ e.data.name = "_confirm"
IsBackRequest(e) == e.kind = "message" /\ e.msg.text \in {C_back, B_back}
\* plain 'skip', '/skip' and '/skip@bot'
IsSkipToken(e) ==
    IF e.kind = "message" /\ IsText(e.msg.text) THEN isSkipText(e.msg.text) ELSE FALSE

\* the sequence of the data-entry steps and the draft fields each one collects
StepOrder == <<"title", "type", "date", "count", "location", "attachment", "note">>
Pos(step) == CHOOSE i \in 1..Len(StepOrder) : StepOrder[i] = step
StepAfter(step) == IF step = "note" THEN "confirming" ELSE StepOrder[Pos(step) + 1]
StepBefore(step) == IF step = "confirming" THEN "note" ELSE StepOrder[Pos(step) - 1]
StepFields(step) ==
    CASE step = "title" -> {"title"}
      [] step = "type" -> {"activity_type"}
      [] step = "date" -> {"date", "dateRaw"}
      [] step = "count" -> {"count"}
      [] step = "location" -> {"location", "lat", "lng"}
      [] step = "attachment" -> {"attachment"}
      [] step = "note" -> {"note"}
EarlierFields(step) == UNION {StepFields(StepOrder[i]) : i \in 1..(Pos(step) - 1)}
\* the same upload: the same kind, downloaded file and file id
SameUpload(a, b) == IF IsAtt(a) /\ IsAtt(b) THEN SubSeq(a, 1, 4) = SubSeq(b, 1, 4) ELSE a = b
SameField(f, d1, d2) == IF f = "attachment" THEN SameUpload(d1[f], d2[f]) ELSE d1[f] = d2[f]

\* the inputs a step takes as an answer instead of asking again
ValidInput(step, m) ==
    CASE step = "location" ->
            IF m.location THEN TRUE
            ELSE IF IsText(m.text) THEN m.text \notin {<< >>, T_SendMyLocation, T_TypeLocation}
            ELSE FALSE
      [] step = "attachment" ->
            IF m.photo \/ m.document THEN TRUE
            ELSE IF IsText(m.text) THEN isSkipText(m.text) ELSE FALSE
      [] OTHER -> IF IsText(m.text) THEN m.text # << >> ELSE FALSE
AnswersStep(e, step) ==
    IF e.kind = "callback" THEN e.data.name = "_set_type" /\ step = "type"
    ELSE IF IsPlainMessage(e) THEN ValidInput(step, e.msg) ELSE FALSE

\* C1: a new-dialogue request (/new, \new, the New-activity button) in a chat
\* that has a session is answered with "cancel first" and leaves the sessions
\* exactly as they were.
C1_NewRejectedInSession ==
    [][(HadSession /\ IsNewRequest(ev'))
        => (sessions' = sessions /\ out'.replies = <<<<"already_in_session">>>>)]_vars

\* C2: while a chat has a session, what it sends (a quick entry aside, which is
\* no part of the dialogue) changes storage only if it is a Confirm and the
\* session holds a staged record.
C2_WritesOnlyOnConfirm ==
    [][(HadSession /\ ~IsQuickAdd(ev') /\ storage' # storage)
        => (IsConfirm(ev') /\ Before.pending # << >>)]_vars
C2_Witness ==
    /\ IsConfirm(ev) /\ ev.pre = "confirming"
    /\ out.ops # << >> /\ ~Fresh

\* C3: a Confirm that storage accepts is, for an edit session, one update keyed
\* by the seeded id that adds no record, and for a create session one insert
\* of a new record whose id is the id of the record announced.
C3_EditUpdatesCreateInserts ==
    [][IF HadSession /\ IsConfirm(ev')
       THEN IF Before.pending # << >> /\ ev'.env.st = "ok"
            THEN /\ Len(out'.ops) = 1
                 /\ IF Before.mode = "edit"
                    THEN /\ out'.ops[1][1] = "update"
                         /\ out'.ops[1][2] = Before.data.id
                         /\ {r.id : r \in storage'} \subseteq {r.id : r \in storage}
                    ELSE /\ out'.ops[1][1] = "insert"
                         /\ storage \subseteq storage'
                         /\ \E r \in storage' \ storage : r.id = out'.ops[1][2]
                         /\ \A i \in 1..Len(out'.announced) :
                                out'.announced[i].id = out'.ops[1][2]
            ELSE TRUE
       ELSE TRUE]_vars

\* C4: a Confirm whose insert or update fails sends the chat a failure message.
C4_FailureReported ==
    [][IF HadSession /\ IsConfirm(ev')
       THEN (Before.pending # << >> /\ ev'.env.st = "fail") => out'.replies # << >>
       ELSE TRUE]_vars

\* C5: a Confirm whose insert or update fails leaves storage as it was, sends
\* no announcement, and leaves the session at its step with its staged record.
C5_FailedCommitKeepsSession ==
    [][IF HadSession /\ IsConfirm(ev')
       THEN (Before.pending # << >> /\ ev'.env.st = "fail")
            => /\ storage' = storage
               /\ out'.announced = << >>
               /\ StillHas
               /\ IF StillHas
                  THEN /\ After.pending # << >>
                       /\ After.step = Before.step /\ After.mode = Before.mode
                       /\ IF After.pending # << >>
                          THEN \A f \in {"id", "title", "activity_type", "date", "count",
                                         "location", "lat", "lng", "note"} :
                                   After.pending[1][f] = Before.pending[1][f]
                          ELSE FALSE
                  ELSE FALSE
       ELSE TRUE]_vars
C5_Witness ==
    /\ IsConfirm(ev) /\ ev.env.st = "fail" /\ ev.pre = "confirming"
    /\ out.ops # << >>
    /\ Has(ev.chat)

C7_EditSkipKeepsValue ==
    [][IF HadSession
       THEN (/\ Before.mode = "edit" /\ ~isEditMenuMode(Before)
             /\ Before.step \in FieldSteps /\ IsSkipToken(ev') /\ Ran)
            => /\ StillHas
               /\ IF StillHas
                  THEN /\ After.step = StepAfter(Before.step)
                       /\ \A f \in StepFields(Before.step) :
                              SameField(f, Before.data, After.data)
                  ELSE FALSE
       ELSE TRUE]_vars

\* the cleared or default value of the field of a step
Cleared(step, d, now) ==
    CASE step = "title" -> d.title \in {Undef, << >>, T_Untitled}
      [] step = "type" -> d.activity_type \in {Undef, << >>}
      [] step = "date" -> d.date = Now(now)
      [] step = "count" -> d.count = Null
      [] step = "location" -> d.location \in {Undef, << >>}
      [] step = "attachment" -> d.attachment = Null
      [] step = "note" -> d.note = << >>

\* C8: in a create session a skip token at any data-entry step, title
\* included, moves to the next step and sets the field of the step to its
\* cleared or default value.
C8_CreateSkipClears ==
    [][IF HadSession
       THEN (Before.mode = "create" /\ Before.step \in FieldSteps /\ IsSkipToken(ev') /\ Ran)
            => /\ StillHas
               /\ IF StillHas
                  THEN /\ After.step = StepAfter(Before.step)
                       /\ Cleared(Before.step, After.data, clock)
                  ELSE FALSE
       ELSE TRUE]_vars

\* C9 as claimed: a back request at a step after title moves the session to
\* the step before and changes nothing else; at title it changes nothing and
\* a notice is sent.
C9_BackOneStep ==
    [][IF HadSession /\ IsBackRequest(ev') /\ Ran
       THEN Before.step \in FieldSteps \cup {"confirming"}
            => IF Before.step = "title"
               THEN sessions' = sessions /\ out'.replies = <<<<"already_at_first_step">>>>
               ELSE sessions' = [sessions EXCEPT ![ev'.chat].step = StepBefore(Before.step)]
       ELSE TRUE]_vars

\* C9: outside field-menu submode a back request at a step after title moves
\* the session to the step before and changes nothing else, and at title it
\* changes nothing and a notice is sent; in field-menu submode a back request
\* at a data-entry step returns to the field menu and changes nothing else.
C9_BackOutsideFieldMenu ==
    [][IF HadSession /\ IsBackRequest(ev') /\ Ran
       THEN Before.step \in FieldSteps \cup {"confirming"}
            => IF isEditMenuMode(Before)
               THEN sessions' = [sessions EXCEPT ![ev'.chat].step = "edit_menu"]
               ELSE IF Before.step = "title"
               THEN sessions' = sessions /\ out'.replies = <<<<"already_at_first_step">>>>
               ELSE sessions' = [sessions EXCEPT ![ev'.chat].step = StepBefore(Before.step)]
       ELSE TRUE]_vars
C9_Witness ==
    /\ IsBackRequest(ev) /\ ev.pre = "count"
    /\ Has(ev.chat)
    /\ IF Has(ev.chat)
       THEN /\ Sess(ev.chat).step = "date" /\ ~isEditMenuMode(Sess(ev.chat))
            /\ Sess(ev.chat).data.date = Iso(1200, 1, 1, 0, 0)
       ELSE FALSE

\* C10: for a session at a data-entry step and an input that moves it on,
\* going back and entering the same input again, now or later and with the
\* collaborators answering as they then do, gives the draft that the first
\* entry gave.
C10_RoundTripSameDraft ==
    \A c \in DOMAIN sessions :
        LET s == sessions[c]
        IN s.step \in FieldSteps =>
            \A m \in {PlainInput(s.step)} \cup OtherInputs(s.step) :
            \A geo1 \in BOOLEAN, geo2 \in BOOLEAN, dl1 \in BOOLEAN, dl2 \in BOOLEAN :
            \A later \in clock..MaxClock :
                LET first == StepMachine(s, m, geo1, dl1, clock, makeId).s
                    again == StepMachine(backStep(first).s, m, geo2, dl2, later, makeId).s
                IN first.step = StepAfter(s.step) => again.data = first.data

\* C11: in an edit session in field-menu submode at a data-entry step, a value
\* or a skip for the step (text, shared location, upload, a skip token, the
\* type-picker button at the type step) leaves the session at the field menu.
C11_FieldEditReturnsToMenu ==
    [][IF HadSession
       THEN (/\ isEditMenuMode(Before) /\ Before.step \in FieldSteps
             /\ (AnswersStep(ev', Before.step) \/ IsSkipToken(ev')) /\ Ran)
            => /\ StillHas
               /\ IF StillHas THEN After.step = "edit_menu" ELSE FALSE
       ELSE TRUE]_vars

\* C12: in field-menu submode a back request at a data-entry step or at
\* confirming puts the session at the field menu, whatever the step before in
\* the sequence is, and changes nothing else of the session.
C12_MenuBackReturnsToMenu ==
    [][IF HadSession /\ IsBackRequest(ev') /\ Ran
       THEN (isEditMenuMode(Before) /\ Before.step \in FieldSteps \cup {"confirming"})
            => /\ StillHas
               /\ IF StillHas
                  THEN /\ After.step = "edit_menu"
                       /\ After.data = Before.data
                       /\ After.pending = Before.pending
                  ELSE FALSE
       ELSE TRUE]_vars
C12_Witness ==
    /\ IsBackRequest(ev) /\ ev.pre \in {"count", "confirming"}
    /\ Has(ev.chat)
    /\ IF Has(ev.chat)
       THEN isEditMenuMode(Sess(ev.chat)) /\ Sess(ev.chat).step = "edit_menu"
       ELSE FALSE

IsCancelRequest(e) ==
    IF e.kind = "callback" THEN e.data.name \in {"_cancel", "_edit_cancel", "_menu_cancel"}
    ELSE e.kind = "message" /\ e.msg.text \in {C_cancel, B_cancel}
IsSkipRequest(e) == e.kind = "message" /\ e.msg.text \in {C_skip, C_skipAt, B_skip}
\* what a user sends into a dialogue: messages, skips, steps back, the type
\* picker and the buttons of the edit menu
IsDialogueInput(e) ==
    \/ IsPlainMessage(e) \/ IsSkipRequest(e) \/ IsBackRequest(e)
    \/ e.kind = "callback" /\ e.data.name \in {"_set_type", "_edit_field", "_edit_all", "_edit_preview"}

\* C13: at confirming every input of the chat other than Confirm and Cancel
\* (text, upload, shared location, skip, back, the type picker, the buttons
\* of the edit menu) leaves the session's step, draft and staged record as
\* they were.
C13_ConfirmingOnlyConfirmOrCancel ==
    [][IF HadSession
       THEN (Before.step = "confirming" /\ IsDialogueInput(ev') /\ Ran)
            => /\ StillHas
               /\ IF StillHas
                  THEN /\ After.step = "confirming"
                       /\ After.data = Before.data
                       /\ After.pending = Before.pending
                  ELSE FALSE
       ELSE TRUE]_vars

\* C14: a Confirm whose write succeeded leaves the chat without a session,
\* whatever becomes of the calls to the transport that follow the write.
C14_CommittedEndsSession ==
    [][IF HadSession /\ IsConfirm(ev')
       THEN (out'.ops # << >> /\ ev'.env.st = "ok") => ~StillHas
       ELSE TRUE]_vars

\* C15: a cancel (/cancel, the menu's Cancel, the preview's Cancel, the edit
\* menu's Cancel) in a chat that has a session removes the session, whether or
\* not the transport takes the handler's calls, writes nothing and announces
\* nothing.
C15_CancelRemovesSession ==
    [][(HadSession /\ IsCancelRequest(ev'))
        => (~StillHas /\ storage' = storage /\ out'.ops = << >> /\ out'.announced = << >>)]_vars

\* C18: when the handler of an event of a chat that has a session throws, the
\* session is removed and the chat is sent the notice that it was canceled.
C18_ErrorDestroysSession ==
    [][(HadSession /\ ev'.env.tx = "throw")
        => (~StillHas /\ out'.replies = <<<<"error_session_canceled">>>>)]_vars

C16_OneEventAtATime ==
    [][IF ev'.kind \in {"message", "callback"} /\ ~IsNewRequest(ev') /\ ~IsCancelRequest(ev')
       THEN (\E i \in DOMAIN suspended :
                suspended[i].chat = ev'.chat /\ ~suspended[i].detached)
            => sessions' = sessions
       ELSE TRUE]_vars

\* C17: a handler that goes on after its wait, when the session it held has
\* been ended or replaced meanwhile, leaves the session store as it finds it.
C17_ResumeLeavesStoreAlone ==
    [][IF ev'.kind = "resume"
       THEN ev'.data.arg => sessions' = sessions
       ELSE TRUE]_vars

\* C20: location text handed to the geocoder is always followed by an answer
\* to the chat: the place found, or the warning that the text is kept without
\* coordinates.
GeocodeWaiting == \E i \in DOMAIN suspended : suspended[i].kind = "geocode"
GeocodeAnswered ==
    /\ ev.kind = "resume"
    /\ IF ev.kind = "resume" THEN ev.data.name = "geocode" ELSE FALSE
    /\ out.replies # << >>
C20_GeocodeNeverHangs == GeocodeWaiting ~> GeocodeAnswered

\* the answer of event e to the prompt of a step is one its parser does not
\* understand: a date text that is none of the forms parseFlexibleDate reads, a
\* count text that parseCountInput keeps as text, a place the geocoder does
\* not find
Unparsed(step, e, now) ==
    IF ~IsPlainMessage(e) \/ ~IsText(e.msg.text) THEN FALSE
    ELSE IF trim(e.msg.text) = << >> \/ isSkipText(e.msg.text) THEN FALSE
    ELSE CASE step = "date" -> Falsy(parseFlexibleDate(trim(e.msg.text), now))
           [] step = "count" -> IsText(parseCountInput(e.msg.text))
           [] step = "location" ->
                e.msg.text \notin {T_SendMyLocation, T_TypeLocation} /\ ~e.env.geo
           [] OTHER -> FALSE

\* C21: an answer that the parser of the step does not understand (date,
\* count) or that the geocoder does not find (location) is answered with the
\* prompt of the step again, and the session keeps its step and its draft.
C21_UnparsedInputReprompts ==
    [][(HadSession /\ Ran /\ Unparsed(Before.step, ev', clock))
        => (/\ StillHas
            /\ After.step = Before.step
            /\ After.data = Before.data)]_vars

\* C22: at the attachment step a message that is no photo, no document and no
\* skip token, and at the location step the keyboard labels 'Send my location'
\* and 'Type location', are answered by asking again, and the session keeps
\* its step and its draft.
C22_NonAnswerAsksAgain ==
    [][(/\ HadSession /\ IsPlainMessage(ev') /\ Ran
        /\ Before.step \in {"location", "attachment"}
        /\ IF Before.step = "location"
           THEN ev'.msg.text \in {T_SendMyLocation, T_TypeLocation}
           ELSE ~ValidInput("attachment", ev'.msg))
        => (/\ StillHas
            /\ After = Before
            /\ out'.replies = <<<<"reprompt", Before.step>>>>)]_vars
C22_Witness ==
    /\ IsPlainMessage(ev) /\ ev.pre = "attachment" /\ ev.msg = TextMsg(T_A)
    /\ Has(ev.chat) /\ Sess(ev.chat).step = "attachment"
    /\ out.replies = <<<<"reprompt", "attachment">>>>

\* the requests that start a dialogue or change a record: new, edit, delete
\* and quick add, as commands, as buttons and as the id sent after the Edit or
\* the Delete button
IsEditOrDeleteRequest(e) ==
    IF e.kind = "callback" THEN e.data.name \in {"_list_edit", "_list_delete"}
    ELSE IF e.kind # "message" \/ ~IsText(e.msg.text) THEN FALSE
    ELSE \/ startsWith(e.msg.text, C_edit) \/ startsWith(e.msg.text, C_delete)
         \/ (IsPlainMessage(e) /\ pendingMenuActionByChatId[e.chat] # "null"
             /\ e.chat \notin DOMAIN sessions)
IsGuardedRequest(e) == IsNewRequest(e) \/ IsEditOrDeleteRequest(e) \/ IsQuickAdd(e)
IsHelpOrList(e) == e.kind = "message" /\ e.msg.text \in {C_help, C_list}
Refused == \E i \in DOMAIN out'.replies : out'.replies[i] = <<"not_authorized">>

\* C23: with an allow-list set, a new, edit, delete or quick-add request of a
\* sender who is not on it starts no session and changes no record; with the
\* allow-list empty no sender is refused, and a new-dialogue request in a chat
\* without a session starts one; help and list are answered for every sender.
C23_AllowListGuardsRequests ==
    [][/\ (IsGuardedRequest(ev') /\ ALLOWED # {} /\ ev'.user \notin ALLOWED)
            => (sessions' = sessions /\ storage' = storage)
       /\ (IsGuardedRequest(ev') /\ ALLOWED = {}) => ~Refused
       /\ (IsNewRequest(ev') /\ ALLOWED = {} /\ ~HadSession /\ Ran) => StillHas
       /\ IsHelpOrList(ev') => out'.replies # << >> /\ ~Refused]_vars
C23_Witness ==
    /\ ALLOWED = {"u1"} /\ ev.user = "u2"
    /\ ev.kind = "message" /\ ev.msg.text \in {C_edit \o id : id \in KnownIds}
    /\ out.replies = <<<<"not_authorized">>>>
    /\ sessions = << >>

\* the id an edit or delete request names
NamedId(e) ==
    IF e.kind = "callback" THEN trim(e.data.arg)
    ELSE IF IsPlainMessage(e) THEN normalizeText(e.msg.text)
    ELSE CmdArg(e.msg.text)
\* no stored record has the id, or an id that begins with it
NamesNoRecord(e) == \A r \in storage : ~startsWith(r.id, NamedId(e))
Rejections == {<<"already_in_session">>, <<"in_session_cancel_first">>, <<"not_found">>,
               <<"not_authorized">>, <<"edit_failed">>, <<"delete_failed">>}

Matching(e) == {r \in storage : startsWith(r.id, NamedId(e))}

\* C25: in the table, an edit or delete request by the beginning of an id, of
\* six hex digits or more, with which the ids of several records begin is
\* answered with the notice that the beginning is ambiguous, starts no
\* session and changes no record.
C25_AmbiguousPrefixRejected ==
    [][IF IsEditOrDeleteRequest(ev') /\ Ran /\ dbEnabled /\ ~HadSession /\ isAllowed(ev'.user)
       THEN (Cardinality(Matching(ev')) > 1 /\ Len(HexPrefix(NamedId(ev'))) >= 6)
            => (/\ sessions' = sessions
                /\ storage' = storage
                /\ out'.replies \in {<<<<"ambiguous">>>>, <<<<"delete_failed", "ambiguous">>>>})
       ELSE TRUE]_vars

\* the actions that are turned down or that fail: text while the preview
\* waits for its buttons, a skip at the title step, a skip or a step back in
\* a chat without a session, a Confirm whose write fails
IsTurnedDown(e) ==
    \/ HadSession /\ Before.step = "confirming" /\ IsPlainMessage(e)
    \/ HadSession /\ Before.step = "title" /\ IsSkipRequest(e)
    \/ ~HadSession /\ (IsSkipRequest(e) \/ IsBackRequest(e))
    \/ HadSession /\ IsConfirm(e) /\ Before.pending # << >> /\ e.env.st = "fail"

\* C26: every event a user sends is answered, and an action that is turned
\* down or that fails is answered with exactly one message to its chat.
C26_EveryActionAnswered ==
    [][IF ev'.kind \in {"message", "callback"} /\ Ran
       THEN /\ out'.replies # << >> \/ out'.answers # << >>
            /\ IsTurnedDown(ev') => Len(out'.replies) = 1
       ELSE TRUE]_vars

\* the location of a draft is a place the geocoder found or a shared location
Located(d) ==
    IF Falsy(d.location) THEN FALSE
    ELSE d.location = T_SharedLocation \/ d.location[1] = "#name"
HasCoordinates(d) == IsNumber(d.lat) \/ IsNumber(d.lng)

\* C27: the draft of every session has coordinates only when its location is
\* a place the geocoder found or a location the device shared.
C27_CoordinatesOnlyWhenLocated ==
    \A c \in DOMAIN sessions : HasCoordinates(sessions[c].data) => Located(sessions[c].data)

\* C28: text at the date step that is no date makes the current instant the
\* draft's date and is kept as the draft's raw date, and the record that the
\* preview stages from such a draft carries that raw date.
C28_UnparsedDateKeptRaw ==
    [][/\ (HadSession /\ Ran /\ Unparsed("date", ev', clock)
           /\ (IF HadSession THEN Before.step = "date" ELSE FALSE))
            => (/\ StillHas
                /\ After.data.date = Now(clock)
                /\ After.data.dateRaw = trim(ev'.msg.text))
       /\ (IF StillHas /\ HadSession
           THEN /\ Before.step # "confirming" /\ After.step = "confirming"
                /\ After.pending # << >> /\ ~Falsy(After.data.dateRaw)
           ELSE FALSE)
            => (IF "dateRaw" \in DOMAIN After.pending[1]
                THEN After.pending[1].dateRaw = After.data.dateRaw
                ELSE FALSE)]_vars

\* --------------------------------------------------------- count answers
IsCountAnswer == ev'.kind = "message" /\ HadSession /\ Before.step = "count" /\ StillHas
CountText == normalizeText(ev'.msg.text)
DigitsOf(t) == Remove(t, DigitRunChars \ Digits)
AllZeroText(t) == Remove(t, CountSeparators) # << >> /\ \A k \in 1..Len(Remove(t, CountSeparators)) : Remove(t, CountSeparators)[k] = "0"
\* the text begins with its digit run and has nothing after it, or a unit word
IsRunWithUnit(t) ==
    /\ t # << >> /\ t[1] \in Digits
    /\ toLowerCase(trim(SubSeq(t, RunEnd(t, 1) + 1, Len(t)))) \in {<< >>, T_mushaf, T_mushafs}
ExpectedCount(t) ==
    IF isSkipText(t) \/ AllZeroText(t) THEN Null
    ELSE IF IsRunWithUnit(t) THEN <<"#num", ParseNat(DigitsOf(SubSeq(t, 1, RunEnd(t, 1)))), << >>>>
    ELSE t

\* C29: an answer to the count question is stored as null when it is a skip
\* token or all zeros, as the integer of its digits when it is a digit run
\* followed by nothing or by a unit word, and as the text itself otherwise
C29_CountParsed ==
    [][IsCountAnswer => After.data.count = ExpectedCount(CountText)]_vars

\* the digit run is one to three digits, a separator and three digits more
IsThousands(t) ==
    /\ IsRunWithUnit(t) /\ ~AllZeroText(t)
    /\ LET run == trim(SubSeq(t, 1, RunEnd(t, 1)))
       IN /\ Len(run) \in 5..7
          /\ run[Len(run) - 3] \in {",", ".", " ", "_"}
          /\ AllDigits(SubSeq(run, 1, Len(run) - 4))
          /\ AllDigits(SubSeq(run, Len(run) - 2, Len(run)))

\* C30: a count written with a thousands separator is stored as the integer
\* of its digits alone, and the loose extraction of the map page reads that
\* same integer back from the stored value, as number and as text
C30_ThousandsAgree ==
    [][IsCountAnswer /\ IsThousands(CountText)
        => /\ After.data.count = <<"#num", ParseNat(DigitsOf(SubSeq(CountText, 1, RunEnd(CountText, 1)))), << >>>>
           /\ parseCountNumberLoose(After.data.count) = After.data.count
           /\ parseCountNumberLoose(CountToString(After.data.count)) = After.data.count]_vars

\* ---------------------------------------------------------- type answers
ActivityTypes == {T_transit, T_arrival, T_distribution, T_class, T_completion, T_update, T_other}
IsTypeInput ==
    /\ HadSession /\ Before.step = "type" /\ StillHas
    /\ \/ ev'.kind = "message"
       \/ ev'.kind = "callback" /\ ev'.data.name = "_set_type"

\* C31: after an input at the type step, typed or picked, the activity type
\* of the draft is one of transit, arrival, distribution, class, completion,
\* update, other
C31_TypeInClosedSet ==
    [][IsTypeInput => After.data.activity_type \in ActivityTypes]_vars

ConfirmInserted ==
    /\ IsConfirm(ev) \/ (ev.kind = "resume" /\ ev.data.name = "commit")
    /\ out.ops # << >>
    /\ IF out.ops # << >> THEN out.ops[1][1] = "insert" /\ out.ops[1][3] = "ok" ELSE FALSE
\* the next handler to write is that of a Confirm of the same chat
ConfirmAgain ==
    /\ IsConfirm(ev') \/ (ev'.kind = "resume" /\ ev'.data.name = "commit")
    /\ ev'.chat = ev.chat
C33_ConfirmInsertsOnce ==
    [][(ConfirmInserted /\ ConfirmAgain) => storage' \subseteq storage]_vars

\* ------------------------------------------------ what a Confirm commits
DraftFields == {"title", "activity_type", "count", "location", "lat", "lng", "note"}
\* the staged record, which is what the write of _confirm persists, says what
\* the draft says
StagedIsDraft(s, now) ==
    /\ \A f \in DraftFields : SameField(f, s.pending[1], s.data)
    /\ s.pending[1].date = safeDateISO(s.data.date, now)
    /\ SameUpload(s.pending[1].attachment, Or(s.data.attachment, Null))

\* C34: a Confirm that writes finds the session at confirming, and the
\* record it writes has the title, type, date, count, location, coordinates,
\* note and attachment of the draft as it is then
C34_CommitIsCurrentDraft ==
    [][(IsConfirm(ev') /\ HadSession /\ out'.ops # << >>)
        => /\ Before.step = "confirming"
           /\ StagedIsDraft(Before, clock)]_vars

\* ------------------------------------------------- staging in a dialogue
IsEditMenuButton(e) ==
    e.kind = "callback" /\ e.data.name \in {"_edit_field", "_edit_all", "_edit_preview", "_edit_cancel"}

\* C35: in a create session a record is staged and confirming is entered
\* from the note step only, by an answer or a skip, and a button of an edit
\* menu changes nothing of the session
C35_CreateStagesAfterNote ==
    [][(HadSession /\ (IF HadSession THEN Before.mode = "create" ELSE FALSE))
        => /\ IsEditMenuButton(ev') => sessions' = sessions
           /\ (StillHas /\ (IF StillHas
                            THEN /\ Before.step # "confirming"
                                 /\ \/ After.step = "confirming"
                                    \/ After.pending # Before.pending /\ After.pending # << >>
                            ELSE FALSE))
                => (Before.step = "note" /\ ev'.kind = "message")]_vars

\* ------------------------------------------------------ the session's owner
\* C36: an event of a sender other than the one who started the chat's
\* session leaves the session table and the records as they are
C36_OnlyOwnerActs ==
    [][(HadSession /\ (IF HadSession THEN ev'.user # Before.userId ELSE FALSE))
        => /\ sessions' = sessions
           /\ storage' = storage]_vars

\* ----------------------------------------------- edit of a deleted record
\* the record an edit session works on is no longer stored
EditTargetGone ==
    /\ HadSession
    /\ IF HadSession
       THEN /\ Before.mode = "edit" /\ Before.pending # << >>
            /\ IF Before.pending # << >> THEN Before.pending[1].id \notin KnownIds ELSE FALSE
       ELSE FALSE

\* C37: a Confirm of an edit session whose record has been deleted meanwhile
\* leaves the stored identifiers as they are and reports no success
C37_EditOfDeletedFails ==
    [][(IsConfirm(ev') /\ EditTargetGone /\ Ran /\ ev'.env.st = "ok")
        => /\ {r.id : r \in storage'} = {r.id : r \in storage}
           /\ \A i \in 1..Len(out'.replies) : out'.replies[i] # <<"updated">>
           /\ out'.announced = << >>]_vars

\* ------------------------------------------------------ the recap's hour
LocalDay(t) == (t + recap.tz * MinuteLen) \div DayLen
LocalTimeOfDay(t) == (t + recap.tz * MinuteLen) % DayLen

C39_OffsetFollowsFile ==
    cron.pc # "off" =>
        /\ \A n \in 1..Len(cron.updates) :
              (n < cron.offset /\ cron.updates[n] = "add")
                 => \E i \in DOMAIN cron.activities : cron.activities[i] = n
        /\ \A i, j \in DOMAIN cron.activities :
              i # j => cron.activities[i] # cron.activities[j]

\* ------------------------------------------------------- the start of polling
\* C40: at most one call of startPollingSafely is between its first line and
\* its finally; on a 409 the handler stops the polling; the timer it sets
\* fires no earlier than two minutes after the stop, and when it has fired a
\* start attempt is in progress, and only one
C40_OneStartAttempt ==
    [][/\ Len(polling'.attempts) <= 1
       /\ polling'.last = "conflict"
            => ~polling'.active /\ polling'.handlers = polling.handlers + 1
       /\ polling'.last = "stopped"
            => /\ Len(polling'.timers) = Len(polling.timers) + 1
               /\ polling'.timers[Len(polling'.timers)].set = polling.now
       /\ polling'.last = "retry"
            => /\ polling.now - polling.timers[1].set >= RetryDelay
               /\ polling'.starting
               /\ Len(polling'.attempts) = 1
               /\ (polling.attempts = << >>
                     => polling'.attempts = <<"deleteWebHook">>)]_vars

\* a timer has just fired while the attempt before it was still in progress,
\* after two conflicts
C40_Witness ==
    /\ polling.pc = "on" /\ polling.last = "retry"
    /\ polling.skipped >= 1 /\ polling.errors >= 2
    /\ Len(polling.attempts) = 1

====
